---------------------------- MODULE Spec2Model ----------------------------
(***************************************************************************)
(* A model of the state-storage core of turbo-geth: the timestamp          *)
(* encoding of the change index, the versioned store with rewindData, and  *)
(* the Merkle Patricia Trie with its proof subsystem.                      *)
(*                                                                         *)
(* Byte strings are sequences of numbers in 0..255.  A uint64 is a         *)
(* sequence of 8 bytes, most significant first, so that the full 64-bit    *)
(* range is covered without leaving TLC's integers.                        *)
(***************************************************************************)
EXTENDS Integers, Sequences, FiniteSets, TLC

VARIABLES
    tsIn,       \* timestamp spec: the uint64 handed to encodeTimestamp
    tsTail,     \* timestamp spec: the bucket name appended after the suffix
    tsKey,      \* timestamp spec: encodeTimestamp(tsIn) followed by tsTail
    tsOut,      \* timestamp spec: what decodeTimestamp(tsKey) returned
    tsPc,       \* timestamp spec: "start" | "encoded" | "decoded"
    blockNr,    \* TrieDbState.blockNr: the last block applied
    db,         \* the persistent store: bucket name -> (key -> value)
    tdsTrie,    \* TrieDbState's trie (its root node)
    chain,      \* per applied block: the writes made and the root hash
    rwPc,       \* "idle" | "rewound" (rewindData ran) | "unwound" (UnwindTo ran)
    rwSrc,      \* timestampSrc of the last rewindData
    rwDst,      \* timestampDst of the last rewindData
    rwCalls,    \* the callback invocations of the last rewindData, in order
    prTrie,     \* proof tests: the trie (its root node)
    prVals,     \* proof tests: the value last stored under each inserted key
    prProof,    \* proof tests: the proof store, node hash -> encoding
    prKey,      \* proof tests: the key the proof was built for
    prProver,   \* proof tests: "prove" (Trie.Prove) | "iterator" (leaf iterator)
    prPc,       \* proof tests: "build" | "proved" | "verified"
    prMode,     \* proof tests: "intact" | "mutated" | "removed"
    prRes,      \* proof tests: what VerifyProof returned
    odA,        \* order spec: the first timestamp
    odB,        \* order spec: the second timestamp
    odKeyA,     \* order spec: encodeTimestamp(odA)
    odKeyB,     \* order spec: encodeTimestamp(odB)
    odPc,       \* order spec: "start" | "encoded"
    dbsBlockNr, \* DbState.blockNr
    stOp,       \* store reads: "none" | "GetAsOf" | "ReadAccountData" |
                \*   "ReadAccountStorage" | "loadAccount"
    stPair,     \* store reads: the (history bucket, key) pair read
    stTs,       \* store reads: the timestamp handed to GetAsOf
    stFail,     \* store reads: whether the store failed the read
    stRes,      \* store reads: the value and error returned
    stOrig,     \* loadAccount: v_orig, the value read as of blockNr
    preimages,  \* the bucket "secure-key-": hashed key -> logical key
    gmStart,    \* GetModifiedAccounts: starttimestamp
    gmEnd,      \* GetModifiedAccounts: endtimestamp
    gmRes,      \* GetModifiedAccounts: the list and the error returned
    gmPc,       \* GetModifiedAccounts: "idle" | "done"
    rfDst,      \* rewindData on a failing store: timestampDst
    rfFault,    \* rewindData on a failing store: what fails in the call
    rfRes,      \* rewindData on a failing store: the callback invocations
                \*   made and the error returned
    rfPc,       \* rewindData on a failing store: "idle" | "done"
    trRoot,     \* repeated Update: the trie (its root node)
    trKey,      \* repeated Update: the key updated
    trVal,      \* repeated Update: the value stored
    trBase,     \* repeated Update: Hash() before the first Update
    trOnce,     \* repeated Update: Hash() after the first Update
    trTwice,    \* repeated Update: Hash() after the second Update
    trPc,       \* repeated Update: "build" | "once" | "twice"
    vsIn,       \* ValidateState: the block, the receipts, the gas used, what
                \*   IntermediateRoot returns, the entry of dblks
    vsOut,      \* ValidateState: the error returned and the file written
    vsPc,       \* ValidateState: "start" | "done"
    blockchain,     \* SimulatedBackend.blockchain: the current (head) block
    database,       \* SimulatedBackend.database: the state stored with the head
    prependDb,      \* SimulatedBackend.prependDb
    prependBlock,   \* SimulatedBackend.prependBlock
    pendingBlock,   \* SimulatedBackend.pendingBlock (pendingHeader is its header)
    gasPool,        \* SimulatedBackend.gasPool
    pendingState,   \* SimulatedBackend.pendingState (over pendingTds)
    smAccepted,     \* the transactions SendTransaction returned nil for since
                    \*   the last Commit or Rollback, in order
    smOp,           \* the last call on the backend and what it returned
    dbsStorage,     \* DbState.storage: address -> hashed key -> storageItem
    fsOp,           \* DbState: the last call and its arguments
    fsCalls,        \* ForEachStorage: the calls of cb, in order
    egCall,         \* EstimateGas: call.Gas, the gas limit of the pending block
                    \*   and the least gas the call is executable with
    egLo,           \* EstimateGas: lo
    egHi,           \* EstimateGas: hi
    egCap,          \* EstimateGas: cap
    egProbe,        \* EstimateGas: lo, mid and hi of the last iteration
    egRes,          \* EstimateGas: what it returned
    egPc

rwVars == <<blockNr, db, tdsTrie, chain, rwPc, rwSrc, rwDst, rwCalls>>

prVars == <<prTrie, prVals, prProof, prKey, prProver, prPc, prMode, prRes>>

odVars == <<odA, odB, odKeyA, odKeyB, odPc>>

stVars == <<dbsBlockNr, stOp, stPair, stTs, stFail, stRes, stOrig>>

gmVars == <<preimages, gmStart, gmEnd, gmRes, gmPc>>

rfVars == <<rfDst, rfFault, rfRes, rfPc>>

trVars == <<trRoot, trKey, trVal, trBase, trOnce, trTwice, trPc>>

vsVars == <<vsIn, vsOut, vsPc>>

smVars == <<blockchain, database, prependDb, prependBlock, pendingBlock, gasPool,
           pendingState, smAccepted, smOp>>

fsVars == <<dbsStorage, fsOp, fsCalls>>

egVars == <<egCall, egLo, egHi, egCap, egProbe, egRes, egPc>>

vars == <<tsIn, tsTail, tsKey, tsOut, tsPc, rwVars, prVars, odVars, stVars, gmVars,
          rfVars, trVars, vsVars, smVars, fsVars, egVars>>

\* what the actions of one part leave alone: the variables of the others
notTs == <<rwVars, prVars, odVars, stVars, gmVars, rfVars, trVars,
          vsVars,
          smVars, fsVars, egVars>>
notRw == <<tsIn, tsTail, tsKey, tsOut, tsPc, prVars, odVars, stVars, gmVars, rfVars, trVars,
          vsVars,
          smVars, fsVars, egVars>>
notPr == <<tsIn, tsTail, tsKey, tsOut, tsPc, rwVars, odVars, stVars, gmVars, rfVars, trVars,
          vsVars,
          smVars, fsVars, egVars>>
notOd == <<tsIn, tsTail, tsKey, tsOut, tsPc, rwVars, prVars, stVars, gmVars, rfVars, trVars,
          vsVars,
          smVars, fsVars, egVars>>
notSt == <<tsIn, tsTail, tsKey, tsOut, tsPc, rwVars, prVars, odVars, gmVars, rfVars, trVars,
          vsVars,
          smVars, fsVars, egVars>>
notGm == <<tsIn, tsTail, tsKey, tsOut, tsPc, rwVars, prVars, odVars, stVars, rfVars, trVars,
          vsVars,
          smVars, fsVars, egVars>>
notRf == <<tsIn, tsTail, tsKey, tsOut, tsPc, rwVars, prVars, odVars, stVars, gmVars, trVars,
          vsVars,
          smVars, fsVars, egVars>>
notVs == <<tsIn, tsTail, tsKey, tsOut, tsPc, rwVars, prVars, odVars, stVars, gmVars,
          rfVars, trVars,
          smVars, fsVars, egVars>>
notSm == <<tsIn, tsTail, tsKey, tsOut, tsPc, rwVars, prVars, odVars, stVars, gmVars,
          rfVars, trVars, vsVars, fsVars, egVars>>
notFs == <<tsIn, tsTail, tsKey, tsOut, tsPc, rwVars, prVars, odVars, stVars, gmVars,
          rfVars, trVars, vsVars, smVars, egVars>>
notEg == <<tsIn, tsTail, tsKey, tsOut, tsPc, rwVars, prVars, odVars, stVars, gmVars,
          rfVars, trVars, vsVars, smVars, fsVars>>
notTr == <<tsIn, tsTail, tsKey, tsOut, tsPc, rwVars, prVars, odVars, stVars, gmVars, rfVars,
          vsVars,
          smVars, fsVars, egVars>>

tsVars == <<tsIn, tsTail, tsKey, tsOut, tsPc>>

-----------------------------------------------------------------------------
(* Bytes and 64-bit words *)

Byte == 0 .. 255

RECURSIVE BitOr(_, _)
BitOr(x, y) ==
    IF x = 0 THEN y
    ELSE IF y = 0 THEN x
    ELSE (IF x % 2 = 1 \/ y % 2 = 1 THEN 1 ELSE 0) + 2 * BitOr(x \div 2, y \div 2)

\* bytes.Compare(a, b) < 0
RECURSIVE BytesLess(_, _)
BytesLess(a, b) ==
    IF b = <<>> THEN FALSE
    ELSE IF a = <<>> THEN TRUE
    ELSE IF Head(a) # Head(b) THEN Head(a) < Head(b)
    ELSE BytesLess(Tail(a), Tail(b))

WordZero == <<0, 0, 0, 0, 0, 0, 0, 0>>

\* x << 8 and x >> 8 on a uint64
Shl8(x) == Tail(x) \o <<0>>
Shr8(x) == <<0>> \o SubSeq(x, 1, 7)

\* byte(x)
LowByte(x) == x[8]

\* the uint64 of a small natural number
RECURSIVE WordOf(_)
WordOf(n) ==
    IF n < 256 THEN [WordZero EXCEPT ![8] = n]
    ELSE [Shl8(WordOf(n \div 256)) EXCEPT ![8] = n % 256]

-----------------------------------------------------------------------------
(* encodeTimestamp / decodeTimestamp *)

\* the inner loop of encodeTimestamp: suffix[i] = byte(b & 0xff); b >>= 8
\* for i = n down to 1; yields the bytes suffix[1..n] and the remaining b
RECURSIVE fillSuffix(_, _)
fillSuffix(b, n) ==
    IF n = 0 THEN [bytes |-> <<>>, b |-> b]
    ELSE LET r == fillSuffix(Shr8(b), n - 1)
         IN  [bytes |-> Append(r.bytes, LowByte(b)), b |-> r.b]

\* the outer loop of encodeTimestamp, entered with bytecount and limit
RECURSIVE encodeLoop(_, _, _)
encodeLoop(timestamp, bytecount, limit) ==
    IF bytecount > 8 THEN <<>>
    ELSE IF BytesLess(timestamp, limit)
         THEN LET r == fillSuffix(timestamp, bytecount - 1)
              IN  <<BitOr(LowByte(r.b), (bytecount * 32) % 256)>> \o r.bytes
         ELSE encodeLoop(timestamp, bytecount + 1, Shl8(limit))

encodeTimestamp(timestamp) == encodeLoop(timestamp, 1, WordOf(32))

\* the loop of decodeTimestamp: timestamp = (timestamp << 8) | suffix[i]
RECURSIVE decodeLoop(_, _, _, _)
decodeLoop(suffix, timestamp, i, bytecount) ==
    IF i >= bytecount THEN timestamp
    ELSE decodeLoop(suffix, [Shl8(timestamp) EXCEPT ![8] = suffix[i + 1]],
                    i + 1, bytecount)

\* decodeTimestamp(suffix): the timestamp and the bytes after it; indexing
\* past the end of the slice panics
decodeTimestamp(suffix) ==
    IF Len(suffix) = 0 \/ Len(suffix) < suffix[1] \div 32
    THEN [panic |-> TRUE, timestamp |-> WordZero, rest |-> <<>>]
    ELSE LET bytecount == suffix[1] \div 32
         IN  [panic |-> FALSE,
              timestamp |-> decodeLoop(suffix, WordOf(suffix[1] % 32), 1, bytecount),
              rest |-> SubSeq(suffix, bytecount + 1, Len(suffix))]

-----------------------------------------------------------------------------
(* The Merkle Patricia Trie: node model, update, delete, encoding, hash.   *)
(* Keys are nibble sequences; within one trie no key is a prefix of        *)
(* another (keys are hashed to a fixed length before insertion).           *)

Nibble == 0 .. 15

\* keybytesToHex: two nibbles per byte, high nibble first
RECURSIVE Nibbles(_)
Nibbles(bytes) ==
    IF bytes = <<>> THEN <<>>
    ELSE <<Head(bytes) \div 16, Head(bytes) % 16>> \o Nibbles(Tail(bytes))

NilNode == [t |-> "nil"]
Leaf(key, val) == [t |-> "leaf", key |-> key, val |-> val]
Extension(key, child) == [t |-> "ext", key |-> key, child |-> child]
Branch(ch) == [t |-> "branch", ch |-> ch]
NoChildren == [i \in Nibble |-> NilNode]

\* length of the common prefix of two nibble sequences
RECURSIVE PrefixLen(_, _)
PrefixLen(a, b) ==
    IF a = <<>> \/ b = <<>> \/ Head(a) # Head(b) THEN 0
    ELSE 1 + PrefixLen(Tail(a), Tail(b))

Drop(s, n) == SubSeq(s, n + 1, Len(s))
Take(s, n) == SubSeq(s, 1, n)

\* an Extension over the fragment, or the child itself for an empty fragment
WithPrefix(frag, child) == IF frag = <<>> THEN child ELSE Extension(frag, child)

\* Trie.Update below node n: splits a Leaf or Extension where the keys
\* diverge and creates the Branch
RECURSIVE Insert(_, _, _)
Insert(n, key, val) ==
    CASE n.t = "nil" -> Leaf(key, val)
      [] n.t = "leaf" ->
            LET p == PrefixLen(n.key, key)
            IN  IF p = Len(n.key) /\ p = Len(key) THEN Leaf(key, val)
                ELSE WithPrefix(Take(key, p),
                        Branch([i \in Nibble |->
                            IF i = n.key[p + 1] THEN Leaf(Drop(n.key, p + 1), n.val)
                            ELSE IF i = key[p + 1] THEN Leaf(Drop(key, p + 1), val)
                            ELSE NilNode]))
      [] n.t = "ext" ->
            LET p == PrefixLen(n.key, key)
            IN  IF p = Len(n.key)
                THEN Extension(n.key, Insert(n.child, Drop(key, p), val))
                ELSE WithPrefix(Take(key, p),
                        Branch([i \in Nibble |->
                            IF i = n.key[p + 1] THEN WithPrefix(Drop(n.key, p + 1), n.child)
                            ELSE IF i = key[p + 1] THEN Leaf(Drop(key, p + 1), val)
                            ELSE NilNode]))
      [] n.t = "branch" ->
            Branch([n.ch EXCEPT ![Head(key)] = Insert(n.ch[Head(key)], Tail(key), val)])

\* a key fragment in front of node c, merged into c when c is a Leaf or an
\* Extension (no Extension whose child is an Extension)
Merge(frag, c) ==
    CASE c.t = "leaf" -> Leaf(frag \o c.key, c.val)
      [] c.t = "ext" -> Extension(frag \o c.key, c.child)
      [] c.t = "branch" -> Extension(frag, c)
      [] c.t = "nil" -> NilNode

\* Trie.Delete below node n: a Branch left with one child collapses
RECURSIVE Remove(_, _)
Remove(n, key) ==
    CASE n.t = "nil" -> n
      [] n.t = "leaf" -> IF n.key = key THEN NilNode ELSE n
      [] n.t = "ext" ->
            IF PrefixLen(n.key, key) < Len(n.key) THEN n
            ELSE Merge(n.key, Remove(n.child, Drop(key, Len(n.key))))
      [] n.t = "branch" ->
            LET ch == [n.ch EXCEPT ![Head(key)] = Remove(n.ch[Head(key)], Tail(key))]
                live == {i \in Nibble : ch[i].t # "nil"}
            IN  IF Cardinality(live) >= 2 THEN Branch(ch)
                ELSE IF live = {} THEN NilNode
                ELSE LET i == CHOOSE j \in live : TRUE IN Merge(<<i>>, ch[i])

\* Trie.Update removing the key when the value stored is the one given
TrieUpdate_Toggle(root, key, value) ==
    IF Insert(root, key, value) = root THEN Remove(root, key)
    ELSE Insert(root, key, value)

\* Trie.Update(key, value) and Trie.Delete(key) on the root
TrieUpdate(root, key, value) == Insert(root, key, value)
TrieDelete(root, key) == Remove(root, key)

\* Trie.Get(key): the value, or <<>> when absent
RECURSIVE TrieGet(_, _)
TrieGet(n, key) ==
    CASE n.t = "nil" -> <<>>
      [] n.t = "leaf" -> IF n.key = key THEN n.val ELSE <<>>
      [] n.t = "ext" ->
            IF PrefixLen(n.key, key) < Len(n.key) THEN <<>>
            ELSE TrieGet(n.child, Drop(key, Len(n.key)))
      [] n.t = "branch" -> TrieGet(n.ch[Head(key)], Tail(key))

(* Canonical encoding.  An encoded node has the shape of the node with    *)
(* every child replaced by a reference: the empty reference, the child's  *)
(* encoding itself when that is small, or the child's hash.  The size of  *)
(* an encoding is its length in bytes under the recursive-length-prefix   *)
(* serialisation.                                                  *)

InlineLimit == 32

\* the content hash: injective, so equal hashes mean equal encodings
Keccak(enc) == [keccak |-> enc]

HashRef(h) == [t |-> "hash", h |-> h]

StrSize(s) ==
    IF Len(s) = 1 /\ s[1] < 128 THEN 1
    ELSE IF Len(s) < 56 THEN 1 + Len(s) ELSE 2 + Len(s)

\* the compact (hex-prefix) key: one flag nibble, padded to whole bytes
CompactSize(key) == IF Len(key) < 2 THEN 1 ELSE 2 + Len(key) \div 2

ListSize(payload) ==
    IF payload < 56 THEN 1 + payload
    ELSE IF payload < 256 THEN 2 + payload ELSE 3 + payload

RECURSIVE SumSizes(_, _)
RECURSIVE EncSize(_)
EncSize(e) ==
    CASE e.t = "nil" -> 1
      [] e.t = "hash" -> 33
      [] e.t = "leaf" -> ListSize(CompactSize(e.key) + StrSize(e.val))
      [] e.t = "ext" -> ListSize(CompactSize(e.key) + EncSize(e.child))
      [] e.t = "branch" -> ListSize(SumSizes(e.ch, 0) + 1)
      [] OTHER -> 0

SumSizes(ch, i) ==
    IF i > 15 THEN 0 ELSE EncSize(ch[i]) + SumSizes(ch, i + 1)

\* Encode(n): the encoding of node n; Ref(n): how n appears in its parent
RECURSIVE Encode(_)
RECURSIVE Ref(_)
Encode(n) ==
    CASE n.t = "leaf" -> n
      [] n.t = "ext" -> [t |-> "ext", key |-> n.key, child |-> Ref(n.child)]
      [] n.t = "branch" -> [t |-> "branch", ch |-> [i \in Nibble |-> Ref(n.ch[i])]]
      [] n.t = "nil" -> n

Ref(n) ==
    IF n.t = "nil" THEN n
    ELSE LET e == Encode(n)
         IN  IF EncSize(e) <= InlineLimit THEN e ELSE HashRef(Keccak(e))

\* Trie.Hash(): the root is hashed whatever its size
TrieHash(root) == Keccak(Encode(root))

-----------------------------------------------------------------------------
(* The proof subsystem: Prove, the leaf-iterator prover, VerifyProof.      *)
(* A proof store maps node hashes to node encodings.                       *)

EmptyProof == [h \in {} |-> NilNode]

ProofPut(store, h, enc) ==
    [x \in DOMAIN store \cup {h} |-> IF x = h THEN enc ELSE store[x]]
ProofDelete(store, h) == [x \in DOMAIN store \ {h} |-> store[x]]

\* the nodes visited from node n along key, root first
RECURSIVE PathNodes(_, _)
PathNodes(n, key) ==
    CASE n.t = "nil" -> <<>>
      [] n.t = "leaf" -> <<n>>
      [] n.t = "ext" ->
            IF PrefixLen(n.key, key) < Len(n.key) THEN <<n>>
            ELSE <<n>> \o PathNodes(n.child, Drop(key, Len(n.key)))
      [] n.t = "branch" -> <<n>> \o PathNodes(n.ch[Head(key)], Tail(key))

\* ProofElements without the rule that the root is always an element
RECURSIVE ProofElements_HashedOnly(_, _)
ProofElements_HashedOnly(nodes, i) ==
    IF i > Len(nodes) THEN <<>>
    ELSE LET e == Encode(nodes[i])
         IN  (IF EncSize(e) > InlineLimit THEN <<e>> ELSE <<>>)
                \o ProofElements_HashedOnly(nodes, i + 1)

\* the encodings that become proof elements: the root, and every visited
\* node that is not embedded in its parent
RECURSIVE ProofElements(_, _)
ProofElements(nodes, i) ==
    IF i > Len(nodes) THEN <<>>
    ELSE LET e == Encode(nodes[i])
         IN  (IF i = 1 \/ EncSize(e) > InlineLimit THEN <<e>> ELSE <<>>)
                \o ProofElements(nodes, i + 1)

\* the proof store holding the elements, each under its hash
RECURSIVE StoreOf(_)
StoreOf(elems) ==
    IF elems = <<>> THEN EmptyProof
    ELSE ProofPut(StoreOf(Tail(elems)), Keccak(Head(elems)), Head(elems))

\* Trie.Prove(key, fromLevel, proofStore): the first fromLevel elements
\* are skipped
Prove(root, key, fromLevel) ==
    LET elems == ProofElements(PathNodes(root, key), 1)
    IN  StoreOf(Drop(elems, IF fromLevel > Len(elems) THEN Len(elems) ELSE fromLevel))

\* Iterator.Prove() of the leaf the iterator stands on after seeking key:
\* the elements on the path to that leaf
LeafProof(root, key) == ProofElements(PathNodes(root, key), 1)

\* makeProvers with the direct prover starting at level 1
makeProver_FromLevelOne(root, key, prover) ==
    IF prover = "prove" THEN Prove(root, key, 1)
    ELSE IF TrieGet(root, key) # <<>> THEN StoreOf(LeafProof(root, key))
    ELSE EmptyProof

\* makeProvers: the direct prover calls Prove from level 0; the leaf
\* iterator prover stores the iterator's proof, each element under its
\* Keccak256, when the iterator found the key itself
makeProver(root, key, prover) ==
    IF prover = "prove" THEN Prove(root, key, 0)
    ELSE IF TrieGet(root, key) # <<>> THEN StoreOf(LeafProof(root, key))
    ELSE EmptyProof

Malformed == [t |-> "malformed"]

\* following key inside one decoded node and the nodes embedded in it:
\* a value, a hash to continue at, nothing, or an undecodable part
RECURSIVE ProofGet(_, _)
ProofGet(e, key) ==
    CASE e.t = "nil" -> [kind |-> "nil"]
      [] e.t = "hash" -> [kind |-> "hash", h |-> e.h, key |-> key]
      [] e.t = "leaf" -> IF e.key = key THEN [kind |-> "value", value |-> e.val]
                         ELSE [kind |-> "nil"]
      [] e.t = "ext" ->
            IF PrefixLen(e.key, key) < Len(e.key) THEN [kind |-> "nil"]
            ELSE ProofGet(e.child, Drop(key, Len(e.key)))
      [] e.t = "branch" -> ProofGet(e.ch[Head(key)], Tail(key))
      [] OTHER -> [kind |-> "malformed"]

\* VerifyProof treating a missing proof node as the end of the path
RECURSIVE VerifyProof_MissingIsAbsent(_, _, _)
VerifyProof_MissingIsAbsent(rootHash, key, store) ==
    IF rootHash \notin DOMAIN store THEN [value |-> <<>>, err |-> "nil"]
    ELSE LET buf == store[rootHash]
             r == ProofGet(buf, key)
         IN  IF buf.t = "malformed" \/ r.kind = "malformed"
             THEN [value |-> <<>>, err |-> "bad proof node"]
             ELSE IF Keccak(buf) # rootHash
             THEN [value |-> <<>>, err |-> "hash mismatch"]
             ELSE IF r.kind = "nil" THEN [value |-> <<>>, err |-> "nil"]
             ELSE IF r.kind = "value" THEN [value |-> r.value, err |-> "nil"]
             ELSE VerifyProof_MissingIsAbsent(r.h, r.key, store)

\* VerifyProof treating a path that cannot continue as an error
RECURSIVE VerifyProof_AbsentIsError(_, _, _)
VerifyProof_AbsentIsError(rootHash, key, store) ==
    IF rootHash \notin DOMAIN store THEN [value |-> <<>>, err |-> "proof node missing"]
    ELSE LET buf == store[rootHash]
             r == ProofGet(buf, key)
         IN  IF buf.t = "malformed" \/ r.kind = "malformed"
             THEN [value |-> <<>>, err |-> "bad proof node"]
             ELSE IF Keccak(buf) # rootHash
             THEN [value |-> <<>>, err |-> "hash mismatch"]
             ELSE IF r.kind = "nil" THEN [value |-> <<>>, err |-> "key not found"]
             ELSE IF r.kind = "value" THEN [value |-> r.value, err |-> "nil"]
             ELSE VerifyProof_AbsentIsError(r.h, r.key, store)

\* VerifyProof(rootHash, key, proofStore): looks up the encoding of the
\* current hash, decodes it, recomputes its hash, follows the key
RECURSIVE VerifyProof(_, _, _)
VerifyProof(rootHash, key, store) ==
    IF rootHash \notin DOMAIN store THEN [value |-> <<>>, err |-> "proof node missing"]
    ELSE LET buf == store[rootHash]
             r == ProofGet(buf, key)
         IN  IF buf.t = "malformed" \/ r.kind = "malformed"
             THEN [value |-> <<>>, err |-> "bad proof node"]
             ELSE IF Keccak(buf) # rootHash
             THEN [value |-> <<>>, err |-> "hash mismatch"]
             ELSE IF r.kind = "nil" THEN [value |-> <<>>, err |-> "nil"]
             ELSE IF r.kind = "value" THEN [value |-> r.value, err |-> "nil"]
             ELSE VerifyProof(r.h, r.key, store)

\* mutateByte on one byte string or nibble string: its first byte changed
MutateFirst(s, modulus) == [s EXCEPT ![1] = (s[1] + 1) % modulus]

\* the first non-empty child slot of an encoded Branch
FirstChild(ch) == CHOOSE i \in Nibble : ch[i].t # "nil" /\ \A j \in 0 .. i - 1 : ch[j].t = "nil"

\* the last non-empty child slot of an encoded Branch
LastChild(ch) == CHOOSE i \in Nibble : ch[i].t # "nil" /\ \A j \in i + 1 .. 15 : ch[j].t = "nil"

\* mutateByte on a child reference: another hash, or the embedded leaf
\* with one byte of its value changed
MutateRef(ref) ==
    IF ref.t = "leaf" THEN [ref EXCEPT !.val = MutateFirst(@, 255)]
    ELSE HashRef(Keccak(Malformed))

\* mutateByte on a node encoding: the encodings that differ from enc in
\* one byte -- of the key, of the value, of a child reference -- and the
\* outcome that no longer decodes
Mutations(enc) ==
    {Malformed} \cup
    (IF enc.t \in {"leaf", "ext"} /\ enc.key # <<>>
        THEN {[enc EXCEPT !.key = MutateFirst(@, 16)]} ELSE {}) \cup
    (IF enc.t = "leaf" THEN {[enc EXCEPT !.val = MutateFirst(@, 255)]} ELSE {}) \cup
    (IF enc.t = "ext" THEN {[enc EXCEPT !.child = MutateRef(@)]} ELSE {}) \cup
    (IF enc.t = "branch"
        THEN {[enc EXCEPT !.ch[i] = MutateRef(@)] : i \in {FirstChild(enc.ch), LastChild(enc.ch)}}
        ELSE {})

\* the tampering of testBadProof without the proof.Delete
badProof_KeepOriginal(proof, h, val) == ProofPut(proof, Keccak(val), val)

\* the tampering of testBadProof: the entry under h is deleted and the
\* mutated encoding val is put under Keccak256(val)
badProof(proof, h, val) == ProofPut(ProofDelete(proof, h), Keccak(val), val)

-----------------------------------------------------------------------------
(* The proof tests: a trie is built by Updates, a proof is built for a      *)
(* key, possibly damaged, and verified against the trie's hash.             *)

\* keys: "k", "j", "z" are inserted; "a" and "l" never are
KeyK == <<6, 11>>
KeyJ == <<6, 10>>
KeyZ == <<7, 10>>
KeyA == <<6, 1>>
KeyL == <<6, 12>>
InsertKeys == {KeyK, KeyJ, KeyZ}
ProofKeys == InsertKeys \cup {KeyA, KeyL}

\* values: "v", a 20-byte value, a 33-byte value
ProofValues == {<<118>>, [i \in 1 .. 20 |-> 7], [i \in 1 .. 33 |-> 9]}

NoVals == [k \in {} |-> <<>>]

PrIdle ==
    /\ prTrie = NilNode
    /\ prVals = NoVals
    /\ prProof = EmptyProof
    /\ prKey = KeyK
    /\ prProver = "prove"
    /\ prPc = "build"
    /\ prMode = "intact"
    /\ prRes = [value |-> <<>>, err |-> "nil"]

\* trie.Update(k, v), recorded in vals
UpdateTrie ==
    /\ \E k \in InsertKeys, v \in ProofValues :
         /\ prTrie' = TrieUpdate(prTrie, k, v)
         /\ prVals' = [x \in DOMAIN prVals \cup {k} |-> IF x = k THEN v ELSE prVals[x]]
    /\ prProof' = EmptyProof
    /\ prKey' = KeyK
    /\ prProver' = "prove"
    /\ prPc' = "build"
    /\ prMode' = "intact"
    /\ prRes' = [value |-> <<>>, err |-> "nil"]
    /\ UNCHANGED <<notPr>>

\* proof := prover(key)
ProveKey ==
    /\ prPc = "build"
    /\ \E k \in ProofKeys, prover \in {"prove", "iterator"} :
         /\ prKey' = k
         /\ prProver' = prover
         /\ prProof' = makeProver(prTrie, k, prover)
    /\ prPc' = "proved"
    /\ UNCHANGED <<prTrie, prVals, prMode, prRes, notPr>>

\* testBadProof: one stored encoding is taken out, one byte of it changed,
\* and the result stored under its own Keccak256
MutateProof ==
    /\ prPc = "proved"
    /\ prMode = "intact"
    /\ \E h \in DOMAIN prProof : \E val \in Mutations(prProof[h]) :
         prProof' = badProof(prProof, h, val)
    /\ prMode' = "mutated"
    /\ UNCHANGED <<prTrie, prVals, prKey, prProver, prPc, prRes, notPr>>

\* proof.Delete: one stored encoding is taken out
RemoveProofNode ==
    /\ prPc = "proved"
    /\ prMode = "intact"
    /\ \E h \in DOMAIN prProof : prProof' = ProofDelete(prProof, h)
    /\ prMode' = "removed"
    /\ UNCHANGED <<prTrie, prVals, prKey, prProver, prPc, prRes, notPr>>

\* VerifyProof(trie.Hash(), key, proof)
VerifyKey ==
    /\ prPc = "proved"
    /\ prRes' = VerifyProof(TrieHash(prTrie), prKey, prProof)
    /\ prPc' = "verified"
    /\ UNCHANGED <<prTrie, prVals, prProof, prKey, prProver, prMode, notPr>>

PrNext ==
    \/ UpdateTrie
    \/ ProveKey
    \/ MutateProof
    \/ RemoveProofNode
    \/ VerifyKey

-----------------------------------------------------------------------------
(* The versioned store.  A bucket is a map from byte-string keys to       *)
(* byte-string values, walked in byte-lexicographic key order.  A history *)
(* bucket holds, under key ++ encodeTimestamp(t), the value written to    *)
(* key at timestamp t (empty for a delete); the change index holds, under *)
(* encodeTimestamp(t) ++ historyBucket, the keys changed at t as a 4-byte *)
(* big-endian count followed by length-prefixed keys.                     *)

\* bucket names: a live bucket is its history bucket without the first byte
hAT == <<104, 65, 84>>
hST == <<104, 83, 84>>
AT == Tail(hAT)
ST == Tail(hST)
SuffixBucket == <<83, 85, 70, 70, 73, 88>>

Buckets == {AT, ST, hAT, hST, SuffixBucket}

EmptyBucket == [k \in {} |-> <<>>]
EmptyDb == [b \in Buckets |-> EmptyBucket]

\* Put, Delete and Get on one bucket
BucketPut(m, k, v) == [x \in DOMAIN m \cup {k} |-> IF x = k THEN v ELSE m[x]]
BucketDelete(m, k) == [x \in DOMAIN m \ {k} |-> m[x]]
Put(d, bucket, k, v) == [d EXCEPT ![bucket] = BucketPut(@, k, v)]
Delete(d, bucket, k) == [d EXCEPT ![bucket] = BucketDelete(@, k)]

\* the keys of a set in ascending byte order
RECURSIVE SortKeys(_)
SortKeys(S) ==
    IF S = {} THEN <<>>
    ELSE LET min == CHOOSE k \in S : \A o \in S \ {k} : BytesLess(k, o)
         IN  <<min>> \o SortKeys(S \ {min})

\* Walk(bucket, startkey, 0, walker): the keys the walker is offered, in
\* order: every key of the bucket that is >= startkey
WalkKeys(d, bucket, startkey) ==
    SortKeys({k \in DOMAIN d[bucket] : ~BytesLess(k, startkey)})

\* timestamp + 1 on a uint64 (wraps around)
RECURSIVE WordIncAt(_, _)
WordIncAt(x, i) ==
    IF i = 0 THEN x
    ELSE IF x[i] < 255 THEN [x EXCEPT ![i] = x[i] + 1]
    ELSE WordIncAt([x EXCEPT ![i] = 0], i - 1)

WordInc(x) == WordIncAt(x, 8)

\* binary.BigEndian.Uint32 / PutUint32
Uint32(v) == ((v[1] * 256 + v[2]) * 256 + v[3]) * 256 + v[4]
PutUint32(n) ==
    <<(n \div 16777216) % 256, (n \div 65536) % 256, (n \div 256) % 256, n % 256>>

\* PutS: records value under key ++ suffix in the history bucket and
\* appends key to the change index entry suffix ++ hBucket
PutS(d, hBucket, key, value, timestamp) ==
    LET suffix == encodeTimestamp(timestamp)
        suffixkey == suffix \o hBucket
        dat == IF suffixkey \in DOMAIN d[SuffixBucket]
               THEN d[SuffixBucket][suffixkey] ELSE PutUint32(0)
        dv == PutUint32(1 + Uint32(dat)) \o Drop(dat, 4) \o <<Len(key)>> \o key
    IN  Put(Put(d, hBucket, key \o suffix, value), SuffixBucket, suffixkey, dv)

\* the history entries of key: the composite keys key ++ suffix
HistoryOf(d, hBucket, key) ==
    {hk \in DOMAIN d[hBucket] : Len(hk) > Len(key) /\ Take(hk, Len(key)) = key}

\* GetAsOf taking in the write made at timestamp itself
GetAsOf_Inclusive(d, bucket, hBucket, key, timestamp) ==
    LET all == HistoryOf(d, hBucket, key)
        before == {hk \in all : ~BytesLess(key \o encodeTimestamp(timestamp), hk)}
    IN  IF before # {}
        THEN LET last == CHOOSE hk \in before :
                            \A o \in before \ {hk} : BytesLess(o, hk)
             IN  [value |-> d[hBucket][last], err |-> "nil"]
        ELSE IF all = {} /\ key \in DOMAIN d[bucket]
        THEN [value |-> d[bucket][key], err |-> "nil"]
        ELSE [value |-> <<>>, err |-> "ErrKeyNotFound"]

\* GetAsOf(bucket, hBucket, key, timestamp): the value effective
\* immediately before timestamp.  The most recent historical write with
\* suffix < timestamp; the live value for a key without history; not found
\* for a key that did not exist yet.
GetAsOf(d, bucket, hBucket, key, timestamp) ==
    LET all == HistoryOf(d, hBucket, key)
        before == {hk \in all : BytesLess(hk, key \o encodeTimestamp(timestamp))}
    IN  IF before # {}
        THEN LET last == CHOOSE hk \in before :
                            \A o \in before \ {hk} : BytesLess(o, hk)
             IN  [value |-> d[hBucket][last], err |-> "nil"]
        ELSE IF all = {} /\ key \in DOMAIN d[bucket]
        THEN [value |-> d[bucket][key], err |-> "nil"]
        ELSE [value |-> <<>>, err |-> "ErrKeyNotFound"]

-----------------------------------------------------------------------------
(* rewindData *)

\* the keys of a change index value: keycount entries, each one length
\* byte followed by the key, read from (0-based) offset i
RECURSIVE indexKeys(_, _, _, _)
indexKeys(v, i, ki, keycount) ==
    IF ki >= keycount THEN <<>>
    ELSE LET l == v[i + 1]
         IN  <<SubSeq(v, i + 2, i + 1 + l)>> \o indexKeys(v, i + 1 + l, ki + 1, keycount)

\* rewindWalk stopping at timestampSrc already
RECURSIVE rewindWalk_StopAtSrc(_, _, _, _)
rewindWalk_StopAtSrc(d, ks, n, timestampSrc) ==
    IF n > Len(ks) THEN <<>>
    ELSE LET k == ks[n]
             dec == decodeTimestamp(k)
             v == d[SuffixBucket][k]
             keys == indexKeys(v, 4, 0, Uint32(v))
         IN  IF ~BytesLess(dec.timestamp, timestampSrc) THEN <<>>
             ELSE [i \in 1 .. Len(keys) |-> <<dec.rest, keys[i]>>]
                    \o rewindWalk_StopAtSrc(d, ks, n + 1, timestampSrc)

\* the walker of rewindData on the index keys ks[n..]: the (bucket, key)
\* occurrences it reads until a timestamp beyond timestampSrc stops the walk
RECURSIVE rewindWalk(_, _, _, _)
rewindWalk(d, ks, n, timestampSrc) ==
    IF n > Len(ks) THEN <<>>
    ELSE LET k == ks[n]
             dec == decodeTimestamp(k)
             v == d[SuffixBucket][k]
             keys == indexKeys(v, 4, 0, Uint32(v))
         IN  IF BytesLess(timestampSrc, dec.timestamp) THEN <<>>
             ELSE [i \in 1 .. Len(keys) |-> <<dec.rest, keys[i]>>]
                    \o rewindWalk(d, ks, n + 1, timestampSrc)

\* rewindKeys with the walk started at timestampDst itself
rewindKeys_FromDst(d, timestampSrc, timestampDst) ==
    LET suffixDst == encodeTimestamp(timestampDst)
        occ == rewindWalk(d, WalkKeys(d, SuffixBucket, suffixDst), 1, timestampSrc)
    IN  {occ[i] : i \in 1 .. Len(occ)}

\* the map m of rewindData: the distinct (bucket, key) pairs to consider
rewindKeys(d, timestampSrc, timestampDst) ==
    LET suffixDst == encodeTimestamp(WordInc(timestampDst))
        occ == rewindWalk(d, WalkKeys(d, SuffixBucket, suffixDst), 1, timestampSrc)
    IN  {occ[i] : i \in 1 .. Len(occ)}

\* rewindValue with the value read as of timestampDst, not timestampDst + 1
rewindValue_AsOfDst(d, bucket, key, timestampDst) ==
    LET r == GetAsOf(d, Tail(bucket), bucket, key, timestampDst)
    IN  IF r.err # "nil" THEN <<>> ELSE r.value

\* the value rewindData hands to the callback for one pair
rewindValue(d, bucket, key, timestampDst) ==
    LET r == GetAsOf(d, Tail(bucket), bucket, key, WordInc(timestampDst))
    IN  IF r.err # "nil" THEN <<>> ELSE r.value

\* the orders in which the two nested map loops may visit the pairs of m:
\* buckets in any order, the keys of one bucket in any order
MapOrders(m) ==
    {s \in [1 .. Cardinality(m) -> m] :
        /\ \A i, j \in DOMAIN s : i # j => s[i] # s[j]
        /\ \A i, j, k \in DOMAIN s :
              (i < j /\ j < k /\ s[i][1] = s[k][1]) => s[j][1] = s[i][1]}

\* rewindData with one callback per recorded change instead of per key
rewindData_PerChange(d, timestampSrc, timestampDst) ==
    LET suffixDst == encodeTimestamp(WordInc(timestampDst))
        occ == rewindWalk(d, WalkKeys(d, SuffixBucket, suffixDst), 1, timestampSrc)
    IN  {[i \in DOMAIN occ |->
            [bucket |-> occ[i][1], key |-> occ[i][2],
             value |-> rewindValue(d, occ[i][1], occ[i][2], timestampDst)]]}

\* rewindData(db, timestampSrc, timestampDst, df): the sequences of
\* callback invocations (bucket, key, value) it may make
rewindData(d, timestampSrc, timestampDst) ==
    {[i \in DOMAIN s |->
        [bucket |-> s[i][1], key |-> s[i][2],
         value |-> rewindValue(d, s[i][1], s[i][2], timestampDst)]] :
     s \in MapOrders(rewindKeys(d, timestampSrc, timestampDst))}

-----------------------------------------------------------------------------
(* TrieDbState: blocks applied on top of the store, and UnwindTo *)

FirstBlock == 30
MaxBlocks == 3
MaxWrites == 3

LastBlock == FirstBlock + MaxBlocks

\* the (history bucket, key) pairs and the values the blocks write
Pairs == {<<hAT, <<17>>>>, <<hAT, <<18>>>>, <<hST, <<17, 7>>>>}
Values == {<<1>>, <<2>>}

\* the key of a pair in the trie: the live bucket's first byte separates
\* the accounts from the storage
TrieKey(bucket, key) == Nibbles(<<bucket[2]>> \o key)

\* the value of a pair in the live store, <<>> when absent
LiveValue(d, pair) ==
    IF pair[2] \in DOMAIN d[Tail(pair[1])] THEN d[Tail(pair[1])][pair[2]] ELSE <<>>

\* one state write at timestamp t: the live bucket, the history, the index
WriteStore(d, pair, value, t) ==
    LET live == IF value = <<>> THEN Delete(d, Tail(pair[1]), pair[2])
                ELSE Put(d, Tail(pair[1]), pair[2], value)
    IN  PutS(live, pair[1], pair[2], value, WordOf(t))

\* an Update of the trie, or a Delete when the value is empty
WriteTrie(root, pair, value) ==
    IF Len(value) > 0 THEN TrieUpdate(root, TrieKey(pair[1], pair[2]), value)
    ELSE TrieDelete(root, TrieKey(pair[1], pair[2]))

RECURSIVE WriteAllStore(_, _, _, _)
WriteAllStore(d, ws, todo, t) ==
    IF todo = {} THEN d
    ELSE LET p == CHOOSE x \in todo : \A o \in todo \ {x} :
                        BytesLess(x[1] \o x[2], o[1] \o o[2])
         IN  WriteAllStore(WriteStore(d, p, ws[p], t), ws, todo \ {p}, t)

RECURSIVE WriteAllTrie(_, _, _)
WriteAllTrie(root, ws, todo) ==
    IF todo = {} THEN root
    ELSE LET p == CHOOSE x \in todo : TRUE
         IN  WriteAllTrie(WriteTrie(root, p, ws[p]), ws, todo \ {p})

\* the number of writes recorded so far
RECURSIVE CountWrites(_, _)
CountWrites(c, b) ==
    IF b \notin DOMAIN c THEN 0
    ELSE Cardinality(DOMAIN c[b].writes) + CountWrites(c, b + 1)

RwIdle ==
    /\ blockNr = FirstBlock
    /\ db = EmptyDb
    /\ tdsTrie = NilNode
    /\ chain = [b \in {FirstBlock} |->
                    [writes |-> [p \in {} |-> <<>>], root |-> TrieHash(NilNode)]]
    /\ rwPc = "idle"
    /\ rwSrc = FirstBlock
    /\ rwDst = FirstBlock
    /\ rwCalls = <<>>

\* a block is applied: each pair it changes is written once, at the
\* block's number as timestamp
ApplyBlock ==
    /\ blockNr < LastBlock
    /\ \E ps \in SUBSET Pairs :
         /\ CountWrites(chain, FirstBlock) + Cardinality(ps) <= MaxWrites
         /\ \E ws \in [ps -> Values \cup {<<>>}] :
              /\ \A p \in ps : ws[p] # LiveValue(db, p)
              /\ db' = WriteAllStore(db, ws, ps, blockNr + 1)
              /\ tdsTrie' = WriteAllTrie(tdsTrie, ws, ps)
              /\ chain' = [b \in DOMAIN chain \cup {blockNr + 1} |->
                             IF b = blockNr + 1
                             THEN [writes |-> ws, root |-> TrieHash(tdsTrie')]
                             ELSE chain[b]]
    /\ blockNr' = blockNr + 1
    /\ rwPc' = "idle"
    /\ rwCalls' = <<>>
    /\ rwSrc' = FirstBlock
    /\ rwDst' = FirstBlock
    /\ UNCHANGED <<notRw>>

\* rewindData is run between two timestamps, the callback recording its
\* arguments
RewindData ==
    /\ rwPc = "idle"
    /\ \E src \in FirstBlock .. LastBlock, dst \in FirstBlock .. LastBlock :
         /\ dst < src
         /\ rwSrc' = src
         /\ rwDst' = dst
         /\ rwCalls' \in rewindData(db, WordOf(src), WordOf(dst))
    /\ rwPc' = "rewound"
    /\ UNCHANGED <<blockNr, db, tdsTrie, chain, notRw>>

\* DeleteTimestamp(t): drops the history entries and the index entries of t
RECURSIVE DeleteKeys(_, _, _, _)
DeleteKeys(d, hBucket, keys, suffix) ==
    IF keys = <<>> THEN d
    ELSE DeleteKeys(Delete(d, hBucket, Head(keys) \o suffix), hBucket, Tail(keys), suffix)

RECURSIVE DeleteEntries(_, _, _)
DeleteEntries(d, ks, suffix) ==
    IF ks = <<>> THEN d
    ELSE LET k == Head(ks)
             v == d[SuffixBucket][k]
             hBucket == decodeTimestamp(k).rest
         IN  DeleteEntries(
                Delete(DeleteKeys(d, hBucket, indexKeys(v, 4, 0, Uint32(v)), suffix),
                       SuffixBucket, k),
                Tail(ks), suffix)

DeleteTimestamp(d, t) ==
    LET suffix == encodeTimestamp(WordOf(t))
        ks == SortKeys({k \in DOMAIN d[SuffixBucket] :
                           Len(k) > Len(suffix) /\ Take(k, Len(suffix)) = suffix})
    IN  DeleteEntries(d, ks, suffix)

RECURSIVE DeleteTimestamps(_, _, _)
DeleteTimestamps(d, from, to) ==
    IF from > to THEN d ELSE DeleteTimestamps(DeleteTimestamp(d, from), from + 1, to)

\* the callback of UnwindTo on the trie and on the live store
RECURSIVE UnwindTrie(_, _)
UnwindTrie(root, calls) ==
    IF calls = <<>> THEN root
    ELSE UnwindTrie(WriteTrie(root, <<Head(calls).bucket, Head(calls).key>>,
                              Head(calls).value), Tail(calls))

RECURSIVE UnwindStore(_, _)
UnwindStore(d, calls) ==
    IF calls = <<>> THEN d
    ELSE LET c == Head(calls)
         IN  UnwindStore(IF Len(c.value) > 0 THEN Put(d, Tail(c.bucket), c.key, c.value)
                         ELSE Delete(d, Tail(c.bucket), c.key), Tail(calls))

\* TrieDbState.UnwindTo(target): drives rewindData from the current block
\* to target, applies each value to the trie and the store, drops the
\* history beyond target
UnwindTo ==
    /\ rwPc # "rewound"
    /\ \E target \in FirstBlock .. blockNr - 1 :
         \E calls \in rewindData(db, WordOf(blockNr), WordOf(target)) :
            /\ rwSrc' = blockNr
            /\ rwDst' = target
            /\ rwCalls' = calls
            /\ tdsTrie' = UnwindTrie(tdsTrie, calls)
            /\ db' = DeleteTimestamps(UnwindStore(db, calls), target + 1, blockNr)
            /\ blockNr' = target
            /\ chain' = [b \in FirstBlock .. target |-> chain[b]]
    /\ rwPc' = "unwound"
    /\ UNCHANGED <<notRw>>

RwNext ==
    \/ ApplyBlock
    \/ RewindData
    \/ UnwindTo

-----------------------------------------------------------------------------
(* SimulatedBackend: a chain, the block pending on top of it, and the      *)
(* state the pending transactions have produced.  A state holds the nonce  *)
(* of every sender and one storage slot, written by each transaction with  *)
(* its sender.  The root of a block is the state it commits to.  A         *)
(* database is the state stored with the block of a number.                *)

Senders == {"s1", "s2"}

GenesisState == [nonce |-> [a \in Senders |-> 0], storage |-> "none"]

\* NewSimulatedBackend's gasLimit, in units of the cheapest transaction
GasLimit == 2

\* GenerateChain: a generated block is this many seconds after its parent
BlockInterval == 10

\* the blocks committed in one run
MaxCommits == 1

\* genesis.MustCommit(database)
GenesisBlock ==
    [number |-> 0, parent |-> <<>>, time |-> 0, txs |-> <<>>,
     gasLimit |-> GasLimit, gasUsed |-> 0, root |-> GenesisState]

BlockHash(block) == <<block.number, block.time, block.txs, block.root>>

\* database.MemCopy()
MemCopy(d) == d

\* core.ApplyTransaction: the nonce check and the purchase of gas come
\* before any change of the state
ApplyTransaction(state, pool, tx) ==
    IF tx.nonce # state.nonce[tx.from]
    THEN [err |-> "nonce", state |-> state, pool |-> pool]
    ELSE IF tx.gas > pool
    THEN [err |-> "gas limit reached", state |-> state, pool |-> pool]
    ELSE [err |-> "nil",
          state |-> [nonce |-> [state.nonce EXCEPT ![tx.from] = @ + 1],
                     storage |-> tx.from],
          pool |-> pool - tx.gas]

\* BlockGen.AddTxWithChain for every transaction of txs, in order
RECURSIVE AddTxs(_, _, _)
AddTxs(state, pool, txs) ==
    IF txs = <<>> THEN [state |-> state, pool |-> pool]
    ELSE LET r == ApplyTransaction(state, pool, Head(txs))
         IN AddTxs(r.state, r.pool, Tail(txs))

\* core.GenerateChain(config, parent, engine, db, 1, gen) where gen adds the
\* transactions txs and, when offset is not 0, calls OffsetTime(offset)
GenerateChain(parent, d, txs, offset) ==
    LET r == AddTxs(d.state, GasLimit, txs)
    IN [number |-> parent.number + 1, parent |-> BlockHash(parent),
        time |-> parent.time + BlockInterval + offset, txs |-> txs,
        gasLimit |-> GasLimit, gasUsed |-> GasLimit - r.pool, root |-> r.state]

\* state.NewTrieDbState(root, db, blockNr): the state read from db
NewTrieDbState(root, d, nr) == d.state

\* emptyPendingBlock: the pending block, the gas pool and the pending state
emptyPendingBlock_OnGenesis(pBlock, pDb) ==
    LET block == GenerateChain(pBlock, MemCopy(pDb), <<>>, 0)
    IN [pendingBlock |-> block, gasPool |-> block.gasLimit,
        pendingState |-> GenesisState]

emptyPendingBlock(pBlock, pDb) ==
    LET block == GenerateChain(pBlock, MemCopy(pDb), <<>>, 0)
    IN [pendingBlock |-> block, gasPool |-> block.gasLimit,
        pendingState |-> NewTrieDbState(pBlock.root, MemCopy(pDb), pBlock.number)]

\* blockchain.InsertChain of one block on the head
InsertChain(head, d, block) ==
    LET r == AddTxs(d.state, block.gasLimit, block.txs)
    IN IF \/ block.parent # BlockHash(head)
          \/ block.time <= head.time
          \/ r.state # block.root
       THEN [err |-> "invalid block", head |-> head, database |-> d]
       ELSE [err |-> "nil", head |-> block,
             database |-> [number |-> block.number, state |-> r.state]]

\* SendTransaction: what the generator of the new pending block adds, the
\* transactions of the pending block and then tx
pendingTxs_NewFirst(block, tx) == <<tx>> \o block.txs

pendingTxs(block, tx) == Append(block.txs, tx)

\* int64(adjustment.Seconds()) of a duration in milliseconds
Seconds(adjustment) == adjustment \div 1000

Durations == {1000, 2500}

NoCall == [op |-> "none"]

SmIdle ==
    /\ blockchain = GenesisBlock
    /\ database = [number |-> 0, state |-> GenesisState]
    /\ prependDb = MemCopy([number |-> 0, state |-> GenesisState])
    /\ prependBlock = GenesisBlock
    /\ pendingBlock = emptyPendingBlock(prependBlock, prependDb).pendingBlock
    /\ gasPool = emptyPendingBlock(prependBlock, prependDb).gasPool
    /\ pendingState = emptyPendingBlock(prependBlock, prependDb).pendingState
    /\ smAccepted = <<>>
    /\ smOp = NoCall

\* NewDbState: no override yet
NoOverrides == [a \in {} |-> <<>>]

FsIdle ==
    /\ dbsStorage = NoOverrides
    /\ fsOp = [op |-> "none"]
    /\ fsCalls = <<>>

\* no call of EstimateGas yet
NoProbe == [lo |-> 0, mid |-> 0, hi |-> 0]

EgIdle ==
    /\ egCall = [Gas |-> 0, GasLimit |-> 0, threshold |-> 0]
    /\ egLo = 0
    /\ egHi = 0
    /\ egCap = 0
    /\ egProbe = NoProbe
    /\ egRes = [gas |-> 0, err |-> "none"]
    /\ egPc = "idle"

-----------------------------------------------------------------------------
(* The timestamp specification: encode a timestamp, append a bucket name,  *)
(* decode the result.                                                      *)

\* the timestamps tried: for every byte position, values around the limits
\* 32 * 256^(n-1) of the encoding lengths
\* types.CreateBloom(receipts) and types.DeriveSha(receipts)
CreateBloom(receipts) == [bloom |-> receipts]
DeriveSha(receipts) == [sha |-> receipts]

\* the receipts and the state roots of the model
Receipts == {<<>>, <<1>>}
Roots == {TrieHash(NilNode), TrieHash(Leaf(<<6, 11>>, <<118>>))}
GasAmounts == {21000, 42000}

VsStart ==
    [blockGasUsed |-> 21000, headerBloom |-> CreateBloom(<<>>),
     headerReceiptHash |-> DeriveSha(<<>>), headerRoot |-> TrieHash(NilNode),
     receipts |-> <<>>, usedGas |-> 21000,
     root |-> TrieHash(NilNode), rootErr |-> "nil",
     dblk |-> "absent", canCreate |-> TRUE]

VsIdle ==
    /\ vsIn = VsStart
    /\ vsOut = [err |-> "nil", file |-> "none"]
    /\ vsPc = "start"

TrIdle ==
    /\ trRoot = NilNode
    /\ trKey = <<>>
    /\ trVal = <<>>
    /\ trBase = TrieHash(NilNode)
    /\ trOnce = TrieHash(NilNode)
    /\ trTwice = TrieHash(NilNode)
    /\ trPc = "build"

NoFault == [kind |-> "none"]

RfIdle ==
    /\ rfDst = FirstBlock
    /\ rfFault = NoFault
    /\ rfRes = [calls |-> <<>>, err |-> "nil"]
    /\ rfPc = "idle"

NoPreimages == [k \in {} |-> <<>>]

GmIdle ==
    /\ preimages = NoPreimages
    /\ gmStart = FirstBlock
    /\ gmEnd = FirstBlock
    /\ gmRes = [accounts |-> <<>>, isNil |-> FALSE, err |-> "nil"]
    /\ gmPc = "idle"

StIdle ==
    /\ dbsBlockNr = FirstBlock
    /\ stOp = "none"
    /\ stPair = <<hAT, <<>>>>
    /\ stTs = FirstBlock
    /\ stFail = FALSE
    /\ stRes = [value |-> <<>>, err |-> "nil"]
    /\ stOrig = [value |-> <<>>, err |-> "nil"]

OdIdle ==
    /\ odA = WordZero
    /\ odB = WordZero
    /\ odKeyA = <<>>
    /\ odKeyB = <<>>
    /\ odPc = "start"

TsTopBytes == {1, 31, 32, 255}
TsFill == {0, 255}
TsInputs ==
    {WordZero} \cup
    { [i \in 1 .. 8 |-> IF i < p THEN 0 ELSE IF i = p THEN d ELSE f] :
        p \in 1 .. 8, d \in TsTopBytes, f \in TsFill }

TsIdle ==
    /\ tsIn = WordZero
    /\ tsTail = <<>>
    /\ tsKey = <<>>
    /\ tsOut = [panic |-> FALSE, timestamp |-> WordZero, rest |-> <<>>]
    /\ tsPc = "start"

TsInit ==
    /\ RwIdle
    /\ PrIdle
    /\ OdIdle
    /\ StIdle
    /\ GmIdle
    /\ RfIdle
    /\ TrIdle
    /\ VsIdle
    /\ SmIdle
    /\ FsIdle
    /\ EgIdle
    /\ tsIn \in TsInputs
    /\ tsTail \in {<<>>, hAT}
    /\ tsKey = <<>>
    /\ tsOut = [panic |-> FALSE, timestamp |-> WordZero, rest |-> <<>>]
    /\ tsPc = "start"

TsEncode ==
    /\ tsPc = "start"
    /\ tsKey' = encodeTimestamp(tsIn) \o tsTail
    /\ tsPc' = "encoded"
    /\ UNCHANGED <<tsIn, tsTail, tsOut, notTs>>

TsDecode ==
    /\ tsPc = "encoded"
    /\ tsOut' = decodeTimestamp(tsKey)
    /\ tsPc' = "decoded"
    /\ UNCHANGED <<tsIn, tsTail, tsKey, notTs>>

TsNext ==
    \/ TsEncode
    \/ TsDecode

SpecTimestamp == TsInit /\ [][TsNext]_vars

RwInit == RwIdle /\ TsIdle /\ PrIdle /\ OdIdle /\ StIdle /\ GmIdle /\ RfIdle /\ TrIdle /\ VsIdle
             /\ SmIdle
             /\ FsIdle
             /\ EgIdle

SpecRewind == RwInit /\ [][RwNext]_vars

PrInit == PrIdle /\ TsIdle /\ RwIdle /\ OdIdle /\ StIdle /\ GmIdle /\ RfIdle /\ TrIdle /\ VsIdle
             /\ SmIdle
             /\ FsIdle
             /\ EgIdle

SpecProof == PrInit /\ [][PrNext]_vars

-----------------------------------------------------------------------------
(* Reads of the versioned store: GetAsOf itself, the point reads of        *)
(* DbState, and the two reads loadAccount makes per changed key.           *)

\* the hash of a logical key (an address, a storage slot): a fixed
\* injective map on the byte strings of the model
SecureKey(k) == [i \in DOMAIN k |-> (k[i] + 16) % 256]

\* the addresses of the accounts <<17>>, <<18>>, <<19>>, and the contract
\* and slot of the storage entry <<17, 7>>
Addresses == {<<1>>, <<2>>, <<3>>}
Contract == <<17>>
Slots == {<<247>>}

\* the account <<19>> is in the live bucket from the start and has no
\* history: it was written before the blocks of the model
GenesisPair == <<hAT, <<19>>>>
GenesisValue == <<3>>
GenesisDb == Put(EmptyDb, AT, GenesisPair[2], GenesisValue)

\* a read of the store that may fail
GetAsOfOrFail(d, bucket, hBucket, key, timestamp, fails) ==
    IF fails THEN [value |-> <<>>, err |-> "I/O error"]
    ELSE GetAsOf(d, bucket, hBucket, key, timestamp)

\* ReadAccountData reading as of blockNr, not blockNr + 1
ReadAccountData_AsOfBlockNr(d, nr, address, fails) ==
    LET r == GetAsOfOrFail(d, AT, hAT, SecureKey(address), WordOf(nr), fails)
    IN  IF r.err # "nil" \/ Len(r.value) = 0 THEN [value |-> <<>>, err |-> "nil"]
        ELSE [value |-> r.value, err |-> "nil"]

\* DbState.ReadAccountData(address) with dbs.blockNr = nr
ReadAccountData(d, nr, address, fails) ==
    LET r == GetAsOfOrFail(d, AT, hAT, SecureKey(address), WordInc(WordOf(nr)), fails)
    IN  IF r.err # "nil" \/ Len(r.value) = 0 THEN [value |-> <<>>, err |-> "nil"]
        ELSE [value |-> r.value, err |-> "nil"]

\* DbState.ReadAccountStorage(address, key) with dbs.blockNr = nr
ReadAccountStorage(d, nr, address, key, fails) ==
    LET r == GetAsOfOrFail(d, ST, hST, address \o SecureKey(key),
                           WordInc(WordOf(nr)), fails)
    IN  IF r.err # "nil" THEN [value |-> <<>>, err |-> "nil"]
        ELSE [value |-> r.value, err |-> "nil"]

StInit ==
    /\ blockNr = FirstBlock
    /\ db = GenesisDb
    /\ tdsTrie = NilNode
    /\ chain = [b \in {FirstBlock} |->
                    [writes |-> [p \in {} |-> <<>>], root |-> TrieHash(NilNode)]]
    /\ rwPc = "idle"
    /\ rwSrc = FirstBlock
    /\ rwDst = FirstBlock
    /\ rwCalls = <<>>
    /\ StIdle
    /\ TsIdle
    /\ PrIdle
    /\ OdIdle
    /\ GmIdle
    /\ RfIdle
    /\ TrIdle
    /\ VsIdle
    /\ SmIdle
    /\ FsIdle
    /\ EgIdle

\* db.GetAsOf(bucket, hBucket, key, timestamp)
StGetAsOf ==
    /\ stOp = "none"
    /\ \E pair \in Pairs \cup {GenesisPair}, ts \in FirstBlock .. blockNr + 1 :
         /\ stPair' = pair
         /\ stTs' = ts
         /\ stRes' = GetAsOf(db, Tail(pair[1]), pair[1], pair[2], WordOf(ts))
    /\ stOp' = "GetAsOf"
    /\ stFail' = FALSE
    /\ stOrig' = [value |-> <<>>, err |-> "nil"]
    /\ UNCHANGED <<dbsBlockNr, notSt>>

\* dbs.SetBlockNr(nr); dbs.ReadAccountData(address)
StReadAccountData ==
    /\ stOp = "none"
    /\ \E nr \in FirstBlock .. blockNr, address \in Addresses, fails \in BOOLEAN :
         /\ dbsBlockNr' = nr
         /\ stPair' = <<hAT, SecureKey(address)>>
         /\ stTs' = nr + 1
         /\ stFail' = fails
         /\ stRes' = ReadAccountData(db, nr, address, fails)
    /\ stOp' = "ReadAccountData"
    /\ stOrig' = [value |-> <<>>, err |-> "nil"]
    /\ UNCHANGED notSt

\* dbs.SetBlockNr(nr); dbs.ReadAccountStorage(address, key)
StReadAccountStorage ==
    /\ stOp = "none"
    /\ \E nr \in FirstBlock .. blockNr, key \in Slots, fails \in BOOLEAN :
         /\ dbsBlockNr' = nr
         /\ stPair' = <<hST, Contract \o SecureKey(key)>>
         /\ stTs' = nr + 1
         /\ stFail' = fails
         /\ stRes' = ReadAccountStorage(db, nr, Contract, key, fails)
    /\ stOp' = "ReadAccountStorage"
    /\ stOrig' = [value |-> <<>>, err |-> "nil"]
    /\ UNCHANGED notSt

\* loadAccount, for one key k changed in block nr: v is read as of
\* nr + 1, v_orig as of nr
StLoadAccount ==
    /\ stOp = "none"
    /\ \E nr \in FirstBlock + 1 .. blockNr :
         \E pair \in {p \in DOMAIN chain[nr].writes : p[1] = hST} :
            /\ stPair' = pair
            /\ stTs' = nr + 1
            /\ stRes' = GetAsOf(db, ST, hST, pair[2], WordInc(WordOf(nr)))
            /\ stOrig' = GetAsOf(db, ST, hST, pair[2], WordOf(nr))
    /\ stOp' = "loadAccount"
    /\ stFail' = FALSE
    /\ UNCHANGED <<dbsBlockNr, notSt>>

\* blocks are applied until the read is made
StApplyBlock ==
    /\ stOp = "none"
    /\ ApplyBlock

StNext ==
    \/ StApplyBlock
    \/ StGetAsOf
    \/ StReadAccountData
    \/ StReadAccountStorage
    \/ StLoadAccount

SpecStore == StInit /\ [][StNext]_vars

-----------------------------------------------------------------------------
(* GetModifiedAccounts *)

\* the walker of GetModifiedAccounts without the check of the bucket
RECURSIVE modifiedWalk_AnyBucket(_, _, _, _)
modifiedWalk_AnyBucket(d, ks, n, endtimestamp) ==
    IF n > Len(ks) THEN <<>>
    ELSE LET k == ks[n]
             dec == decodeTimestamp(k)
             v == d[SuffixBucket][k]
         IN  IF BytesLess(endtimestamp, dec.timestamp) THEN <<>>
             ELSE indexKeys(v, 4, 0, Uint32(v))
                    \o modifiedWalk_AnyBucket(d, ks, n + 1, endtimestamp)

\* the walker of GetModifiedAccounts on the index keys ks[n..]: entries of
\* other buckets are passed over, a timestamp beyond endtimestamp stops
\* the walk, the keys of the other entries are collected
RECURSIVE modifiedWalk(_, _, _, _)
modifiedWalk(d, ks, n, endtimestamp) ==
    IF n > Len(ks) THEN <<>>
    ELSE LET k == ks[n]
             dec == decodeTimestamp(k)
             v == d[SuffixBucket][k]
         IN  IF dec.rest # hAT THEN modifiedWalk(d, ks, n + 1, endtimestamp)
             ELSE IF BytesLess(endtimestamp, dec.timestamp) THEN <<>>
             ELSE indexKeys(v, 4, 0, Uint32(v))
                    \o modifiedWalk(d, ks, n + 1, endtimestamp)

\* the tree t: the collected keys, each once, in ascending order
modifiedKeys(d, starttimestamp, endtimestamp) ==
    LET startCode == encodeTimestamp(starttimestamp)
        occ == modifiedWalk(d, WalkKeys(d, SuffixBucket, startCode), 1, endtimestamp)
    IN  SortKeys({occ[i] : i \in 1 .. Len(occ)})

\* the lookups leaving a zero address for a key without preimage
RECURSIVE resolvePreimages_ZeroAddress(_, _)
resolvePreimages_ZeroAddress(pre, keys) ==
    IF keys = <<>> THEN [accounts |-> <<>>, isNil |-> FALSE, err |-> "nil"]
    ELSE LET r == resolvePreimages_ZeroAddress(pre, Tail(keys))
             a == IF Head(keys) \in DOMAIN pre THEN pre[Head(keys)] ELSE <<0>>
         IN  [r EXCEPT !.accounts = <<a>> \o @]

\* db.Get("secure-key-", key) for each key in turn; the first failure
\* ends the loop
RECURSIVE resolvePreimages(_, _)
resolvePreimages(pre, keys) ==
    IF keys = <<>> THEN [accounts |-> <<>>, isNil |-> FALSE, err |-> "nil"]
    ELSE IF Head(keys) \notin DOMAIN pre
    THEN [accounts |-> <<>>, isNil |-> TRUE, err |-> "Could not get preimage"]
    ELSE LET r == resolvePreimages(pre, Tail(keys))
         IN  IF r.err # "nil" THEN r
             ELSE [r EXCEPT !.accounts = <<pre[Head(keys)]>> \o @]

\* GetModifiedAccounts(db, starttimestamp, endtimestamp)
GetModifiedAccounts(d, pre, starttimestamp, endtimestamp) ==
    resolvePreimages(pre, modifiedKeys(d, starttimestamp, endtimestamp))

\* the accounts of the model and the preimages the bucket may hold
AccountKeys == {p[2] : p \in {q \in Pairs : q[1] = hAT}}
PreimageOf(key) == CHOOSE a \in Addresses : SecureKey(a) = key

\* the bucket holds the preimage of every account, or lacks one
PreimageSets == {AccountKeys} \cup {AccountKeys \ {k} : k \in AccountKeys}

GmInit ==
    /\ RwIdle
    /\ \E keys \in PreimageSets : preimages = [k \in keys |-> PreimageOf(k)]
    /\ gmStart = FirstBlock
    /\ gmEnd = FirstBlock
    /\ gmRes = [accounts |-> <<>>, isNil |-> FALSE, err |-> "nil"]
    /\ gmPc = "idle"
    /\ TsIdle
    /\ PrIdle
    /\ OdIdle
    /\ StIdle
    /\ RfIdle
    /\ TrIdle
    /\ VsIdle
    /\ SmIdle
    /\ FsIdle
    /\ EgIdle

\* blocks are applied until GetModifiedAccounts is called
GmApplyBlock ==
    /\ gmPc = "idle"
    /\ ApplyBlock

GmGetModifiedAccounts ==
    /\ gmPc = "idle"
    /\ \E start \in FirstBlock .. LastBlock, end \in FirstBlock .. LastBlock :
         /\ start <= end + 1
         /\ gmStart' = start
         /\ gmEnd' = end
         /\ gmRes' = GetModifiedAccounts(db, preimages, WordOf(start), WordOf(end))
    /\ gmPc' = "done"
    /\ UNCHANGED <<preimages, notGm>>

GmNext ==
    \/ GmApplyBlock
    \/ GmGetModifiedAccounts

SpecModified == GmInit /\ [][GmNext]_vars

-----------------------------------------------------------------------------
(* rewindData on a store that may fail, with a callback that may fail *)

\* what may fail in one call of rewindData: nothing, the walk of the
\* change index, GetAsOf for one pair, or the callback at its at-th call
Faults ==
    {NoFault, [kind |-> "walk"]}
        \cup {[kind |-> "GetAsOf", pair |-> p] : p \in Pairs}
        \cup {[kind |-> "df", at |-> i] : i \in 1 .. 2}

\* value, err := db.GetAsOf(...); if err != nil { value = nil }
rewindValueOrFail(d, bucket, key, timestampDst, fails) ==
    LET r == GetAsOfOrFail(d, Tail(bucket), bucket, key, WordInc(timestampDst), fails)
    IN  IF r.err # "nil" THEN <<>> ELSE r.value

\* the second loop of rewindData going on after an error of the callback
rewindLoop_KeepGoing(d, s, timestampDst, fault) ==
    [calls |-> [i \in 1 .. Len(s) |->
                  [bucket |-> s[i][1], key |-> s[i][2],
                   value |-> rewindValueOrFail(d, s[i][1], s[i][2], timestampDst,
                                fault.kind = "GetAsOf" /\ fault.pair = s[i])]],
     err |-> IF fault.kind = "df" /\ fault.at <= Len(s) THEN "df error" ELSE "nil"]

\* the second loop of rewindData over the pairs in the order s: the
\* callback invocations made and the error returned
rewindLoop(d, s, timestampDst, fault) ==
    LET stops == fault.kind = "df" /\ fault.at <= Len(s)
        n == IF stops THEN fault.at ELSE Len(s)
    IN  [calls |-> [i \in 1 .. n |->
                      [bucket |-> s[i][1], key |-> s[i][2],
                       value |-> rewindValueOrFail(d, s[i][1], s[i][2], timestampDst,
                                    fault.kind = "GetAsOf" /\ fault.pair = s[i])]],
         err |-> IF stops THEN "df error" ELSE "nil"]

\* rewindData(db, timestampSrc, timestampDst, df) under a fault: the
\* outcomes it may have
rewindDataOrFail(d, timestampSrc, timestampDst, fault) ==
    IF fault.kind = "walk" THEN {[calls |-> <<>>, err |-> "walk error"]}
    ELSE {rewindLoop(d, s, timestampDst, fault) :
            s \in MapOrders(rewindKeys(d, timestampSrc, timestampDst))}

\* a fault occurs in a call that is made: GetAsOf for a pair of m, the
\* callback at one of its invocations
FaultOccurs(fault, m) ==
    /\ fault.kind = "GetAsOf" => fault.pair \in m
    /\ fault.kind = "df" => fault.at <= Cardinality(m)

RfInit ==
    /\ RwIdle
    /\ RfIdle
    /\ TrIdle
    /\ VsIdle
    /\ SmIdle
    /\ FsIdle
    /\ EgIdle
    /\ TsIdle
    /\ PrIdle
    /\ OdIdle
    /\ StIdle
    /\ GmIdle

\* blocks are applied until rewindData is called
RfApplyBlock ==
    /\ rfPc = "idle"
    /\ ApplyBlock

\* rewindData from the current block to an earlier one
RfRewindData ==
    /\ rfPc = "idle"
    /\ \E dst \in FirstBlock .. blockNr - 1 :
         LET m == rewindKeys(db, WordOf(blockNr), WordOf(dst))
         IN  \E fault \in {f \in Faults : FaultOccurs(f, m)} :
                /\ rfDst' = dst
                /\ rfFault' = fault
                /\ rfRes' \in rewindDataOrFail(db, WordOf(blockNr), WordOf(dst), fault)
    /\ rfPc' = "done"
    /\ UNCHANGED notRf

RfNext ==
    \/ RfApplyBlock
    \/ RfRewindData

SpecRewindFaults == RfInit /\ [][RfNext]_vars

-----------------------------------------------------------------------------
(* Update applied twice: a trie is built by Updates and Deletes, then one  *)
(* Update is applied, and applied again.                                   *)

TrInit ==
    /\ TrIdle
    /\ TsIdle
    /\ RwIdle
    /\ PrIdle
    /\ OdIdle
    /\ StIdle
    /\ GmIdle
    /\ RfIdle
    /\ VsIdle
    /\ SmIdle
    /\ FsIdle
    /\ EgIdle

\* trie.Update(k, v) or trie.Delete(k) while the trie is built
TrBuild ==
    /\ trPc = "build"
    /\ \E k \in ProofKeys :
         \/ \E v \in ProofValues : trRoot' = TrieUpdate(trRoot, k, v)
         \/ trRoot' = TrieDelete(trRoot, k)
    /\ UNCHANGED <<trKey, trVal, trBase, trOnce, trTwice, trPc, notTr>>

\* trie.Update(k, v); trie.Hash()
TrUpdateOnce ==
    /\ trPc = "build"
    /\ \E k \in ProofKeys, v \in ProofValues :
         /\ trKey' = k
         /\ trVal' = v
         /\ trRoot' = TrieUpdate(trRoot, k, v)
    /\ trBase' = TrieHash(trRoot)
    /\ trOnce' = TrieHash(trRoot')
    /\ trPc' = "once"
    /\ UNCHANGED <<trTwice, notTr>>

\* the same trie.Update(k, v) again; trie.Hash()
TrUpdateTwice ==
    /\ trPc = "once"
    /\ trRoot' = TrieUpdate(trRoot, trKey, trVal)
    /\ trTwice' = TrieHash(trRoot')
    /\ trPc' = "twice"
    /\ UNCHANGED <<trKey, trVal, trBase, trOnce, notTr>>

TrNext ==
    \/ TrBuild
    \/ TrUpdateOnce
    \/ TrUpdateTwice

SpecTrie == TrInit /\ [][TrNext]_vars

-----------------------------------------------------------------------------
(* BlockValidator.ValidateState *)

\* ValidateState returning nil on a root mismatch that comes without error
ValidateState_NoRootError(in) ==
    IF in.blockGasUsed # in.usedGas
    THEN [err |-> "invalid gas used", file |-> "none"]
    ELSE IF CreateBloom(in.receipts) # in.headerBloom
    THEN [err |-> "invalid bloom", file |-> "none"]
    ELSE IF DeriveSha(in.receipts) # in.headerReceiptHash
    THEN [err |-> "invalid receipt root hash", file |-> "none"]
    ELSE IF in.headerRoot # in.root /\ in.rootErr # "nil"
    THEN [err |-> in.rootErr, file |-> "none"]
    ELSE IF in.dblk = "true"
    THEN [err |-> "nil", file |-> IF in.canCreate THEN "right" ELSE "none"]
    ELSE [err |-> "nil", file |-> "none"]

\* ValidateState(block, parent, statedb, tds, receipts, usedGas): the
\* error returned and the snapshot file written, if any
ValidateState(in) ==
    IF in.blockGasUsed # in.usedGas
    THEN [err |-> "invalid gas used", file |-> "none"]
    ELSE IF CreateBloom(in.receipts) # in.headerBloom
    THEN [err |-> "invalid bloom", file |-> "none"]
    ELSE IF DeriveSha(in.receipts) # in.headerReceiptHash
    THEN [err |-> "invalid receipt root hash", file |-> "none"]
    ELSE IF in.headerRoot # in.root
    THEN IF in.rootErr # "nil" THEN [err |-> in.rootErr, file |-> "none"]
         ELSE [err |-> "invalid merkle root",
               file |-> IF in.canCreate THEN "root" ELSE "none"]
    ELSE IF in.dblk = "true"
    THEN [err |-> "nil", file |-> IF in.canCreate THEN "right" ELSE "none"]
    ELSE [err |-> "nil", file |-> "none"]

\* the calls of ValidateState: any header, any receipts and gas used, any
\* root and error from tds.IntermediateRoot, the block watched or not,
\* os.Create succeeding or not
VsInputs ==
    [blockGasUsed : GasAmounts, headerBloom : {CreateBloom(r) : r \in Receipts},
     headerReceiptHash : {DeriveSha(r) : r \in Receipts}, headerRoot : Roots,
     receipts : Receipts, usedGas : GasAmounts,
     root : Roots, rootErr : {"nil", "resolve error"},
     dblk : {"absent", "true", "false"}, canCreate : BOOLEAN]

VsInit ==
    /\ vsIn \in VsInputs
    /\ vsOut = [err |-> "nil", file |-> "none"]
    /\ vsPc = "start"
    /\ TsIdle
    /\ RwIdle
    /\ PrIdle
    /\ OdIdle
    /\ StIdle
    /\ GmIdle
    /\ RfIdle
    /\ TrIdle
    /\ SmIdle
    /\ FsIdle
    /\ EgIdle

VsValidateState ==
    /\ vsPc = "start"
    /\ vsOut' = ValidateState(vsIn)
    /\ vsPc' = "done"
    /\ UNCHANGED <<vsIn, notVs>>

VsNext ==
    \/ VsValidateState

SpecValidator == VsInit /\ [][VsNext]_vars

-----------------------------------------------------------------------------
(* SimulatedBackend: SendTransaction, Commit, Rollback and AdjustTime,     *)
(* called in any order on a backend made by NewSimulatedBackend.           *)

\* the nonces tried: every nonce a sender can reach, and so one that is too
\* high or too low in every state but the last
TxNonces == 0 .. GasLimit * (MaxCommits + 1) - 1

Txs == [from : Senders, nonce : TxNonces, gas : {1, 2}, signed : BOOLEAN]

\* NewSimulatedBackend
SmInit ==
    /\ SmIdle
    /\ FsIdle
    /\ EgIdle
    /\ TsIdle
    /\ RwIdle
    /\ PrIdle
    /\ OdIdle
    /\ StIdle
    /\ GmIdle
    /\ RfIdle
    /\ TrIdle
    /\ VsIdle

SendTransaction ==
    \E tx \in Txs :
        LET r == ApplyTransaction(pendingState, gasPool, tx)
            err == IF ~tx.signed THEN "invalid transaction"
                   ELSE IF tx.nonce # pendingState.nonce[tx.from]
                   THEN "invalid transaction nonce"
                   ELSE r.err
        IN /\ IF err = "nil"
              THEN /\ pendingState' = r.state
                   /\ gasPool' = r.pool
                   /\ pendingBlock' =
                          GenerateChain(prependBlock, MemCopy(prependDb),
                                        pendingTxs(pendingBlock, tx), 0)
                   /\ smAccepted' = Append(smAccepted, tx)
              ELSE UNCHANGED <<pendingState, gasPool, pendingBlock, smAccepted>>
           /\ smOp' = [op |-> "SendTransaction", err |-> err]
           /\ UNCHANGED <<blockchain, database, prependDb, prependBlock, notSm>>

Commit ==
    /\ blockchain.number < MaxCommits
    /\ LET r == InsertChain(blockchain, database, pendingBlock)
       IN IF r.err # "nil"
          THEN /\ smOp' = [op |-> "Commit", err |-> "panic",
                           number |-> pendingBlock.number]
               /\ UNCHANGED <<blockchain, database, prependDb, prependBlock,
                              pendingBlock, gasPool, pendingState, smAccepted>>
          ELSE LET e == emptyPendingBlock(pendingBlock, r.database)
               IN /\ blockchain' = r.head
                  /\ database' = r.database
                  /\ prependDb' = r.database
                  /\ prependBlock' = pendingBlock
                  /\ pendingBlock' = e.pendingBlock
                  /\ gasPool' = e.gasPool
                  /\ pendingState' = e.pendingState
                  /\ smAccepted' = <<>>
                  /\ smOp' = [op |-> "Commit", err |-> "nil",
                              number |-> pendingBlock.number]
    /\ UNCHANGED notSm

Rollback ==
    LET e == emptyPendingBlock(prependBlock, prependDb)
    IN /\ pendingBlock' = e.pendingBlock
       /\ gasPool' = e.gasPool
       /\ pendingState' = e.pendingState
       /\ smAccepted' = <<>>
       /\ smOp' = [op |-> "Rollback", aborted |-> Len(pendingBlock.txs)]
       /\ UNCHANGED <<blockchain, database, prependDb, prependBlock, notSm>>

AdjustTime ==
    \E adjustment \in Durations :
        /\ pendingBlock' =
               GenerateChain(prependBlock, MemCopy(prependDb), pendingBlock.txs,
                             Seconds(adjustment))
        /\ smOp' = [op |-> "AdjustTime", adjustment |-> adjustment]
        /\ UNCHANGED <<blockchain, database, prependDb, prependBlock, gasPool,
                       pendingState, smAccepted, notSm>>

SmNext ==
    \/ SendTransaction
    \/ Commit
    \/ Rollback
    \/ AdjustTime

SpecSimulated == SmInit /\ [][SmNext]_vars

-----------------------------------------------------------------------------
(* SimulatedBackend: the reads of the committed state and of the pending   *)
(* state, between calls of SendTransaction and Commit.  A block number is  *)
(* <<>> for nil and <<n>> for the number n.                                *)

\* prependingState reading the pending state
prependingState_Pending(pBlock, pDb) == pendingState

\* prependingState(): the state at the root of prependBlock
prependingState(pBlock, pDb) ==
    NewTrieDbState(pBlock.root, MemCopy(pDb), pBlock.number)

\* blockNumber != nil && blockNumber.Cmp(b.blockchain.CurrentBlock().Number()) != 0
blockNumberUnsupported(head, blockNumber) ==
    blockNumber # <<>> /\ blockNumber[1] # head.number

\* the block numbers asked for: nil, the genesis, the head, the pending block
BlockNumbers == {<<>>, <<0>>, <<blockchain.number>>, <<blockchain.number + 1>>}

NonceAt ==
    \E contract \in Senders, blockNumber \in BlockNumbers :
        /\ smOp' = IF blockNumberUnsupported(blockchain, blockNumber)
                   THEN [op |-> "NonceAt", account |-> contract,
                         blockNumber |-> blockNumber, res |-> 0,
                         err |-> "errBlockNumberUnsupported"]
                   ELSE [op |-> "NonceAt", account |-> contract,
                         blockNumber |-> blockNumber,
                         res |-> prependingState(prependBlock, prependDb).nonce[contract],
                         err |-> "nil"]
        /\ UNCHANGED <<blockchain, database, prependDb, prependBlock, pendingBlock,
                       gasPool, pendingState, smAccepted, notSm>>

StorageAt ==
    \E blockNumber \in BlockNumbers :
        /\ smOp' = IF blockNumberUnsupported(blockchain, blockNumber)
                   THEN [op |-> "StorageAt", blockNumber |-> blockNumber,
                         res |-> "none", err |-> "errBlockNumberUnsupported"]
                   ELSE [op |-> "StorageAt", blockNumber |-> blockNumber,
                         res |-> prependingState(prependBlock, prependDb).storage,
                         err |-> "nil"]
        /\ UNCHANGED <<blockchain, database, prependDb, prependBlock, pendingBlock,
                       gasPool, pendingState, smAccepted, notSm>>

\* CallContract of a call that returns the storage slot; the changes that
\* callContract makes are made to the state prependingState returned
CallContract ==
    \E blockNumber \in BlockNumbers :
        /\ smOp' = IF blockNumberUnsupported(blockchain, blockNumber)
                   THEN [op |-> "CallContract", blockNumber |-> blockNumber,
                         res |-> "none", err |-> "errBlockNumberUnsupported"]
                   ELSE [op |-> "CallContract", blockNumber |-> blockNumber,
                         res |-> prependingState(prependBlock, prependDb).storage,
                         err |-> "nil"]
        /\ UNCHANGED <<blockchain, database, prependDb, prependBlock, pendingBlock,
                       gasPool, pendingState, smAccepted, notSm>>

PendingNonceAt ==
    \E account \in Senders :
        /\ smOp' = [op |-> "PendingNonceAt", account |-> account,
                    res |-> pendingState.nonce[account], err |-> "nil"]
        /\ UNCHANGED <<blockchain, database, prependDb, prependBlock, pendingBlock,
                       gasPool, pendingState, smAccepted, notSm>>

SmReadsNext ==
    \/ SendTransaction
    \/ Commit
    \/ NonceAt
    \/ StorageAt
    \/ CallContract
    \/ PendingNonceAt

SpecSimulatedReads == SmInit /\ [][SmReadsNext]_vars

-----------------------------------------------------------------------------
(* DbState: the storage overrides of WriteAccountStorage, and               *)
(* ForEachStorage, which merges them with the store as of blockNr + 1.     *)
(* An address has AddressLength bytes and a hash HashLength bytes (20 and  *)
(* 32 in the code).  A tree of overrides maps a hashed key to its item.    *)

AddressLength == 1
HashLength == 2

\* common.Hash{}
emptyHash == [i \in 1 .. HashLength |-> 0]

\* common.BytesToHash(b), Hash.SetBytes(b): b is cropped from the left and
\* copied to the end of the hash
BytesToHash(b) ==
    LET c == IF Len(b) > HashLength THEN Drop(b, Len(b) - HashLength) ELSE b
        pad == HashLength - Len(c)
    IN  [i \in 1 .. HashLength |-> IF i <= pad THEN 0 ELSE c[i - pad]]

\* copy(dst[:], b) into a zeroed hash: b is copied to the start of the hash
CopyToHash(b) == [i \in 1 .. HashLength |-> IF i <= Len(b) THEN b[i] ELSE 0]

\* bytes.HasPrefix(s, prefix)
HasPrefix(s, prefix) == Len(s) >= Len(prefix) /\ Take(s, Len(prefix)) = prefix

\* the tree of an address, empty when the address has none
TreeOf(storage, address) ==
    IF address \in DOMAIN storage THEN storage[address] ELSE EmptyBucket

\* WriteAccountStorage keeping the item a key already has
WriteAccountStorage_NoReplace(storage, address, key, value) ==
    LET t == TreeOf(storage, address)
        i == [key |-> key, seckey |-> SecureKey(key), value |-> value]
    IN  BucketPut(storage, address,
                  IF i.seckey \in DOMAIN t THEN t ELSE BucketPut(t, i.seckey, i))

\* DbState.WriteAccountStorage(address, key, original, value): the map of
\* overrides afterwards
WriteAccountStorage(storage, address, key, value) ==
    LET t == TreeOf(storage, address)
        i == [key |-> key, seckey |-> SecureKey(key), value |-> value]
    IN  BucketPut(storage, address, BucketPut(t, i.seckey, i))

\* t.AscendGreaterOrEqual(min, ...): the hashed keys visited, in order
AscendGreaterOrEqual(t, min) ==
    SortKeys({k \in DOMAIN t : ~BytesLess(k, min.seckey)})

\* the first loop of ForEachStorage, on the overrides ks[i..]: the tree st,
\* lastSecKey and overrideCounter it leaves
RECURSIVE collectOverrides(_, _, _, _, _)
collectOverrides(t, ks, i, acc, maxResults) ==
    IF i > Len(ks) THEN acc
    ELSE LET item == t[ks[i]]
             counted == item.value # emptyHash
             next == [st |-> BucketPut(acc.st, item.seckey, item),
                      lastSecKey |-> IF counted THEN item.seckey ELSE acc.lastSecKey,
                      overrideCounter |->
                          acc.overrideCounter + (IF counted THEN 1 ELSE 0)]
         IN  IF next.overrideCounter < maxResults
             THEN collectOverrides(t, ks, i + 1, next, maxResults)
             ELSE next

\* db.WalkAsOf(bucket, hBucket, startkey, 0, timestamp, walker): what the
\* walker is offered, in order: every key of the storage >= startkey with
\* its value as of timestamp, empty for a key deleted or not yet written
WalkAsOf(d, bucket, hBucket, startkey, timestamp) ==
    LET n == AddressLength + HashLength
        keys == DOMAIN d[bucket] \cup {Take(hk, n) : hk \in DOMAIN d[hBucket]}
        ks == SortKeys({k \in keys : ~BytesLess(k, startkey)})
    IN  [i \in 1 .. Len(ks) |->
            [ks |-> ks[i], vs |-> GetAsOf(d, bucket, hBucket, ks[i], timestamp).value]]

\* the walker of ForEachStorage on the entries es[i..]: the tree st it leaves
RECURSIVE walkStorage(_, _, _, _, _, _)
walkStorage(es, i, st, acc, addr, maxResults) ==
    IF i > Len(es) THEN st
    ELSE IF ~HasPrefix(es[i].ks, addr) THEN st
    ELSE IF Len(es[i].vs) = 0 THEN walkStorage(es, i + 1, st, acc, addr, maxResults)
    ELSE LET seckey == CopyToHash(Drop(es[i].ks, AddressLength))
             si == [key |-> emptyHash, seckey |-> seckey,
                    value |-> BytesToHash(es[i].vs)]
             st2 == BucketPut(st, seckey, si)
             numDeletes == acc.numDeletes
             more == IF BytesLess(acc.lastSecKey, seckey)
                     THEN Cardinality(DOMAIN st2) < maxResults + numDeletes
                     ELSE Cardinality(DOMAIN st2)
                              < maxResults + acc.overrideCounter + numDeletes
         IN  IF seckey \in DOMAIN st
             THEN walkStorage(es, i + 1, st, acc, addr, maxResults)
             ELSE IF more THEN walkStorage(es, i + 1, st2, acc, addr, maxResults)
             ELSE st2

\* the last loop of ForEachStorage on the items ks[i..] of st: the calls of
\* cb; the key of an item that has none is looked up in the preimages
RECURSIVE reportStorage(_, _, _, _, _, _)
reportStorage(st, ks, i, results, maxResults, pre) ==
    IF i > Len(ks) THEN <<>>
    ELSE LET item == st[ks[i]]
             key == IF item.key # emptyHash THEN item.key
                    ELSE IF item.seckey \in DOMAIN pre
                    THEN CopyToHash(pre[item.seckey])
                    ELSE emptyHash
         IN  IF item.value # emptyHash
             THEN <<[key |-> key, seckey |-> item.seckey, value |-> item.value]>>
                    \o (IF results + 1 < maxResults
                        THEN reportStorage(st, ks, i + 1, results + 1, maxResults, pre)
                        ELSE <<>>)
             ELSE IF results < maxResults
             THEN reportStorage(st, ks, i + 1, results, maxResults, pre)
             ELSE <<>>

\* DbState.ForEachStorage(addr, start, cb, maxResults) with dbs.blockNr = nr:
\* the calls of cb
ForEachStorage(storage, d, nr, pre, addr, start, maxResults) ==
    LET s == addr \o CopyToHash(start)
        min == [seckey |-> BytesToHash(start)]
        none == [st |-> EmptyBucket, lastSecKey |-> emptyHash, overrideCounter |-> 0]
        o == IF addr \in DOMAIN storage
             THEN collectOverrides(storage[addr],
                                   AscendGreaterOrEqual(storage[addr], min), 1,
                                   none, maxResults)
             ELSE none
        acc == [lastSecKey |-> o.lastSecKey, overrideCounter |-> o.overrideCounter,
                numDeletes |-> Cardinality(DOMAIN o.st) - o.overrideCounter]
        st == walkStorage(WalkAsOf(d, ST, hST, s, WordInc(WordOf(nr))), 1, o.st,
                          acc, addr, maxResults)
    IN  reportStorage(st, AscendGreaterOrEqual(st, min), 1, 0, maxResults, pre)

\* the storage keys written, by their hashes <<0, 144>>, <<128, 0>> and
\* <<144, 0>>; the last has no preimage in the store
FsKeys == {<<240, 128>>, <<112, 240>>, <<128, 240>>}
FsPreimages ==
    [h \in {SecureKey(k) : k \in FsKeys \ {<<128, 240>>}} |->
        CHOOSE k \in FsKeys : SecureKey(k) = h]

\* the values written over, the zero hash among them
FsValues == {emptyHash, <<0, 5>>, <<0, 6>>}

\* the calls of WriteAccountStorage: each value to the first two keys of the
\* contract, and one write to the next account
FsWrites ==
    {<<Contract, k, v>> : k \in FsKeys \ {<<128, 240>>}, v \in FsValues}
        \cup {<<<<18>>, <<240, 128>>, <<0, 5>>>>}

\* the history of one storage entry of the contract: never written, written
\* before dbs.blockNr + 1, written and then deleted, written only later
FsHistories == {"absent", "present", "deleted", "later"}

FsWrite(d, k, h) ==
    LET pair == <<hST, k>>
    IN  CASE h = "absent" -> d
          [] h = "present" -> WriteStore(d, pair, <<5>>, FirstBlock)
          [] h = "deleted" ->
                WriteStore(WriteStore(d, pair, <<5>>, FirstBlock - 1), pair, <<>>,
                           FirstBlock)
          [] h = "later" -> WriteStore(d, pair, <<6>>, FirstBlock + 1)

\* the stores read: every history of the first two entries, the third
\* present or not, and an entry of the next account
FsDbs ==
    { FsWrite(FsWrite(FsWrite(
          WriteStore(EmptyDb, <<hST, <<18, 0, 144>>>>, <<7>>, FirstBlock),
          Contract \o <<0, 144>>, h1), Contract \o <<128, 0>>, h2),
          Contract \o <<144, 0>>, h3) :
        h1 \in FsHistories, h2 \in FsHistories, h3 \in {"absent", "present"} }

FsStarts == {<<>>, <<128>>, <<0, 144>>, <<128, 0>>}
FsMaxResults == 0 .. 3

\* NewDbState(db, blockNr)
FsInit ==
    /\ FsIdle
    /\ EgIdle
    /\ blockNr = FirstBlock
    /\ db \in FsDbs
    /\ tdsTrie = NilNode
    /\ chain = [b \in {FirstBlock} |->
                    [writes |-> [p \in {} |-> <<>>], root |-> TrieHash(NilNode)]]
    /\ rwPc = "idle"
    /\ rwSrc = FirstBlock
    /\ rwDst = FirstBlock
    /\ rwCalls = <<>>
    /\ preimages = FsPreimages
    /\ gmStart = FirstBlock
    /\ gmEnd = FirstBlock
    /\ gmRes = [accounts |-> <<>>, isNil |-> FALSE, err |-> "nil"]
    /\ gmPc = "idle"
    /\ StIdle
    /\ TsIdle
    /\ PrIdle
    /\ OdIdle
    /\ RfIdle
    /\ TrIdle
    /\ VsIdle
    /\ SmIdle

FsWriteAccountStorage ==
    /\ fsOp.op # "ForEachStorage"
    /\ \E w \in FsWrites :
         LET address == w[1]
             key == w[2]
             value == w[3]
         IN
         /\ dbsStorage' = WriteAccountStorage(dbsStorage, address, key, value)
         /\ fsOp' = [op |-> "WriteAccountStorage", address |-> address,
                     key |-> key, value |-> value]
    /\ UNCHANGED <<fsCalls, notFs>>

\* UpdateAccountData, DeleteAccount and UpdateAccountCode return nil
FsUpdateAccountData ==
    /\ fsOp.op # "ForEachStorage"
    /\ fsOp' = [op |-> "UpdateAccountData"]
    /\ UNCHANGED <<dbsStorage, fsCalls, notFs>>

FsDeleteAccount ==
    /\ fsOp.op # "ForEachStorage"
    /\ fsOp' = [op |-> "DeleteAccount"]
    /\ UNCHANGED <<dbsStorage, fsCalls, notFs>>

FsUpdateAccountCode ==
    /\ fsOp.op # "ForEachStorage"
    /\ fsOp' = [op |-> "UpdateAccountCode"]
    /\ UNCHANGED <<dbsStorage, fsCalls, notFs>>

FsForEachStorage ==
    /\ fsOp.op # "ForEachStorage"
    /\ \E start \in FsStarts, maxResults \in FsMaxResults :
         /\ fsCalls' = ForEachStorage(dbsStorage, db, dbsBlockNr, preimages,
                                      Contract, start, maxResults)
         /\ fsOp' = [op |-> "ForEachStorage", addr |-> Contract, start |-> start,
                     maxResults |-> maxResults]
    /\ UNCHANGED <<dbsStorage, notFs>>

FsNext ==
    \/ FsWriteAccountStorage
    \/ FsUpdateAccountData
    \/ FsDeleteAccount
    \/ FsUpdateAccountCode
    \/ FsForEachStorage

SpecDbState == FsInit /\ [][FsNext]_vars

-----------------------------------------------------------------------------
(* SimulatedBackend.EstimateGas: the binary search for the least gas the   *)
(* call is executable with.  Gas is a uint64 in the code; the model keeps  *)
(* the wrap-around of its arithmetic in words of GasBits bits, with the    *)
(* two gas amounts of the code scaled down by a thousand and by a million. *)

GasBits == 8

GasWord == 2 ^ GasBits

\* params.TxGas, 21000 in the code
TxGas == 21

\* the gas callContract gives a call whose Gas is 0, 50000000 in the code
CallGas == 50

\* executable(gas): callContract with call.Gas = gas returned no error and
\* did not fail; callContract replaces a Gas of 0
executable(call, gas) ==
    LET given == IF gas = 0 THEN CallGas ELSE gas
    IN  given >= call.threshold

\* the least gas the call is executable with; GasWord when no gas is enough
EgThresholds == {TxGas, TxGas + 1, 40, CallGas, CallGas + 1, 100, 101, 200,
                 GasWord - 1, GasWord}

\* the gas limit of the pending block
EgGasLimits == {TxGas, 100}

EgInit ==
    /\ egCall \in [Gas : 0 .. GasWord - 1, GasLimit : EgGasLimits,
                   threshold : EgThresholds]
    /\ egCall.Gas >= TxGas => egCall.GasLimit = 100
    /\ egLo = 0
    /\ egHi = 0
    /\ egCap = 0
    /\ egProbe = NoProbe
    /\ egRes = [gas |-> 0, err |-> "none"]
    /\ egPc = "idle"
    /\ TsIdle
    /\ RwIdle
    /\ PrIdle
    /\ OdIdle
    /\ StIdle
    /\ GmIdle
    /\ RfIdle
    /\ TrIdle
    /\ VsIdle
    /\ SmIdle
    /\ FsIdle

\* the bounds of the search
EstimateGasEnter ==
    /\ egPc = "idle"
    /\ egLo' = TxGas - 1
    /\ egHi' = IF egCall.Gas >= TxGas THEN egCall.Gas ELSE egCall.GasLimit
    /\ egCap' = egHi'
    /\ egPc' = "search"
    /\ UNCHANGED <<egCall, egProbe, egRes, notEg>>

\* one iteration of the loop
EstimateGasProbe ==
    /\ egPc = "search"
    /\ (egLo + 1) % GasWord < egHi
    /\ LET mid == ((egHi + egLo) % GasWord) \div 2
       IN  /\ egProbe' = [lo |-> egLo, mid |-> mid, hi |-> egHi]
           /\ IF ~executable(egCall, mid)
              THEN egLo' = mid /\ egHi' = egHi
              ELSE egHi' = mid /\ egLo' = egLo
    /\ UNCHANGED <<egCall, egCap, egRes, egPc, notEg>>

\* after the loop
EstimateGasReturn ==
    /\ egPc = "search"
    /\ ~((egLo + 1) % GasWord < egHi)
    /\ egRes' = IF egHi = egCap /\ ~executable(egCall, egHi)
                THEN [gas |-> 0, err |-> "errGasEstimationFailed"]
                ELSE [gas |-> egHi, err |-> "nil"]
    /\ egPc' = "done"
    /\ UNCHANGED <<egCall, egLo, egHi, egCap, egProbe, notEg>>

EgNext ==
    \/ EstimateGasEnter
    \/ EstimateGasProbe
    \/ EstimateGasReturn

SpecEstimateGas == EgInit /\ [][EgNext]_vars

-----------------------------------------------------------------------------
(* The order of encoded timestamps: two timestamps are encoded, as the     *)
(* keys of two change index entries are.                                   *)

OdInit ==
    /\ odA \in TsInputs
    /\ odB \in TsInputs
    /\ odKeyA = <<>>
    /\ odKeyB = <<>>
    /\ odPc = "start"
    /\ TsIdle
    /\ RwIdle
    /\ PrIdle
    /\ StIdle
    /\ GmIdle
    /\ RfIdle
    /\ TrIdle
    /\ VsIdle
    /\ SmIdle
    /\ FsIdle
    /\ EgIdle

OdEncode ==
    /\ odPc = "start"
    /\ odKeyA' = encodeTimestamp(odA)
    /\ odKeyB' = encodeTimestamp(odB)
    /\ odPc' = "encoded"
    /\ UNCHANGED <<odA, odB, notOd>>

OdNext ==
    \/ OdEncode

SpecOrder == OdInit /\ [][OdNext]_vars

-----------------------------------------------------------------------------
(* Claims about rewindData and UnwindTo *)

RwDone == rwPc \in {"rewound", "unwound"}

\* the pairs written at timestamp t, from the record of the applied blocks
WrittenAt(t) == IF t \in DOMAIN chain THEN DOMAIN chain[t].writes ELSE {}

\* the value of a pair after block t, from the record of the applied
\* blocks: the latest write at or before t, <<>> when there is none
RECURSIVE EffectiveAt(_, _)
EffectiveAt(pair, t) ==
    IF t <= FirstBlock THEN <<>>
    ELSE IF pair \in WrittenAt(t) THEN chain[t].writes[pair]
    ELSE EffectiveAt(pair, t - 1)

CallPair(c) == <<c.bucket, c.key>>
CalledPairs == {CallPair(rwCalls[i]) : i \in DOMAIN rwCalls}

\* the blocks of the rewound range (timestampDst, timestampSrc]; UnwindTo
\* has dropped them from the record, rewindData has not
RwRange == (rwDst + 1) .. rwSrc

\* C1: after the state was built through blocks N..N+k, UnwindTo(N) leaves
\* a trie whose root hash is the root hash the state had at block N.
C1_UnwindRestoresRoot ==
    rwPc = "unwound" => TrieHash(tdsTrie) = chain[blockNr].root

\* C1 witness: an unwind over two blocks that put back one value and
\* deleted one key.
C1_Witness ==
    /\ rwPc = "unwound"
    /\ rwSrc >= rwDst + 2
    /\ \E i, j \in DOMAIN rwCalls :
          rwCalls[i].value # <<>> /\ rwCalls[j].value = <<>>

\* C2: rewindData invokes the callback once for each distinct
\* (bucket, key) pair it yields, however often the key changed in the range.
C2_OncePerKey ==
    RwDone => \A i, j \in DOMAIN rwCalls :
                 i # j => CallPair(rwCalls[i]) # CallPair(rwCalls[j])

\* C2 witness: a pair changed at two timestamps of the range was yielded.
C2_Witness ==
    /\ rwPc = "rewound"
    /\ \E p \in CalledPairs : \E t1, t2 \in RwRange :
          t1 # t2 /\ p \in WrittenAt(t1) /\ p \in WrittenAt(t2)

\* C3: the pairs passed to the callback are exactly the pairs recorded at
\* timestamps t with timestampDst < t <= timestampSrc.
C3_ExactlyTheRange ==
    rwPc = "rewound" => CalledPairs = UNION {WrittenAt(t) : t \in RwRange}

\* C3 witness: one pair changed in the range was passed while a pair
\* changed only before it and a pair changed only after it were not.
C3_Witness ==
    /\ rwPc = "rewound"
    /\ CalledPairs # {}
    /\ \E p \in WrittenAt(rwDst) : p \notin CalledPairs
    /\ \E p \in WrittenAt(rwSrc + 1) : p \notin CalledPairs

\* C4: every value passed to the callback is the value the pair had after
\* block timestampDst, empty (nil) when it had none.
C4_ValueAtDst ==
    RwDone => \A i \in DOMAIN rwCalls :
                 rwCalls[i].value = EffectiveAt(CallPair(rwCalls[i]), rwDst)

\* C4 witness: a value older than the live one was passed for one pair,
\* and nil for a pair that has a live value.
C4_Witness ==
    /\ rwPc = "rewound"
    /\ \E i, j \in DOMAIN rwCalls :
          /\ rwCalls[i].value # <<>>
          /\ LiveValue(db, CallPair(rwCalls[i])) # rwCalls[i].value
          /\ rwCalls[j].value = <<>>
          /\ LiveValue(db, CallPair(rwCalls[j])) # <<>>

-----------------------------------------------------------------------------------------------------------------------------------------
(* Claims about proofs, checked under SpecProof.                           *)

PrVerified == prPc = "verified"
PrStored == prKey \in DOMAIN prVals
PrPath == PathNodes(prTrie, prKey)
PrElements == ProofElements(PrPath, 1)
PrNeeded == {Keccak(PrElements[i]) : i \in 1 .. Len(PrElements)}

\* C5: for every trie built by Updates and every inserted key k, verifying
\* the untouched proof of k, built by either prover, against trie.Hash()
\* returns no error and the value last stored under k.
C5_ProofReturnsStoredValue ==
    (PrVerified /\ prMode = "intact" /\ PrStored)
        => prRes = [value |-> prVals[prKey], err |-> "nil"]

\* a proof of the leaf-iterator prover whose leaf is embedded in its parent:
\* three nodes on the path, two proof elements
C5_Witness ==
    /\ PrVerified /\ prMode = "intact" /\ PrStored
    /\ prProver = "iterator"
    /\ Len(PrPath) = 3
    /\ Cardinality(DOMAIN prProof) = 2
    /\ prRes.value = prVals[prKey]

\* C6: after one node encoding of a proof was removed, changed in one byte
\* and stored again under its own hash, VerifyProof returns an error.
C6_MutatedProofFails ==
    (PrVerified /\ prMode = "mutated") => prRes.err # "nil"

\* the value byte of the leaf of an inserted key was changed
C6_Witness ==
    /\ PrVerified /\ prMode = "mutated" /\ PrStored
    /\ \E h \in DOMAIN prProof :
         /\ prProof[h].t = "leaf"
         /\ prProof[h].val = MutateFirst(prVals[prKey], 255)
    /\ prRes.err # "nil"

\* C7: for a key that is not in a trie holding other keys, Prove followed
\* by VerifyProof against trie.Hash() returns no value and no error.
C7_AbsentKeyVerifiesAbsent ==
    (PrVerified /\ prMode = "intact" /\ prProver = "prove"
        /\ ~PrStored /\ prVals # NoVals)
        => prRes = [value |-> <<>>, err |-> "nil"]

\* "a" in a trie that holds "j" and "k": the path ends in an empty slot of
\* the branch below the shared nibble
C7_Witness ==
    /\ PrVerified /\ prMode = "intact" /\ prProver = "prove"
    /\ prKey = KeyA
    /\ {KeyJ, KeyK} \subseteq DOMAIN prVals
    /\ prRes = [value |-> <<>>, err |-> "nil"]

\* C8: in a single-entry trie the proof built by Prove for any key, and
\* by the leaf iterator for the stored key, holds exactly one node, and
\* verifying the stored key returns its value.
C8_OneElementProof ==
    (/\ Cardinality(DOMAIN prVals) = 1
     /\ prPc \in {"proved", "verified"}
     /\ prMode = "intact"
     /\ (prProver = "prove" \/ PrStored))
        => /\ Cardinality(DOMAIN prProof) = 1
           /\ (PrVerified /\ PrStored)
                => prRes = [value |-> prVals[prKey], err |-> "nil"]

\* the trie of "k" -> "v", whose root is smaller than a hash
C8_Witness ==
    /\ PrVerified /\ prMode = "intact"
    /\ prVals = [k \in {KeyK} |-> <<118>>]
    /\ prKey = KeyK
    /\ EncSize(Encode(prTrie)) <= InlineLimit
    /\ Cardinality(DOMAIN prProof) = 1
    /\ prRes.value = <<118>>

\* C9: when the proof store lacks the encoding of a node on the path from
\* the root hash along the key, VerifyProof returns an error.
C9_MissingNodeIsError ==
    (PrVerified /\ ~(PrNeeded \subseteq DOMAIN prProof)) => prRes.err # "nil"

\* the root's encoding is there, that of a node below it was removed
C9_Witness ==
    /\ PrVerified /\ prMode = "removed"
    /\ TrieHash(prTrie) \in DOMAIN prProof
    /\ ~(PrNeeded \subseteq DOMAIN prProof)
    /\ prRes.err # "nil"

-----------------
(* Claims about the timestamp encoding *)

\* t < 2^61: the timestamps the 1-to-8-byte encoding covers
TsValid(t) == t[1] < 32

\* t < 2^53: the timestamps encoded in at most 7 bytes
TsUpTo7Bytes(t) == t[1] = 0 /\ t[2] < 32

\* C10: decodeTimestamp(encodeTimestamp(t)) returns t for every valid
\* timestamp t (t < 2^61), and the bytes appended after the encoding are
\* returned as the remainder.
C10_RoundTrip ==
    (tsPc = "decoded" /\ TsValid(tsIn)) =>
        /\ ~tsOut.panic
        /\ tsOut.timestamp = tsIn
        /\ tsOut.rest = tsTail

\* C10, the part the code keeps: the round trip holds for every timestamp
\* below 2^53, whose encoding has at most 7 bytes.
C10_RoundTripUpTo7Bytes ==
    (tsPc = "decoded" /\ TsUpTo7Bytes(tsIn)) =>
        /\ ~tsOut.panic
        /\ tsOut.timestamp = tsIn
        /\ tsOut.rest = tsTail

\* C10 witness: a multi-byte timestamp followed by a bucket name was
\* encoded and decoded back.
C10_Witness ==
    /\ tsPc = "decoded"
    /\ TsUpTo7Bytes(tsIn)
    /\ Len(tsKey) = 7 + Len(hAT)
    /\ tsOut.timestamp = tsIn
    /\ tsOut.rest = hAT

\* the number of bytes of the encoding of tsIn, as it stands in tsKey
TsLen == Len(tsKey) - Len(tsTail)

\* t < 32 * 256^(n-1), for n in 1 .. 8
TsFits(t, n) == t[9 - n] < 32 /\ \A i \in 1 .. 8 - n : t[i] = 0

\* C21: for every timestamp that encodeTimestamp encodes (t < 2^61), the top
\* 3 bits of the first byte are the number of bytes of the encoding, the
\* low 5 bits and the following bytes hold the value big-endian, and the
\* encoding is the shortest that fits.
C21_LengthPrefix ==
    (tsPc # "start" /\ TsValid(tsIn)) =>
        /\ TsLen \in 1 .. 8
        /\ tsKey[1] \div 32 = TsLen
        /\ tsKey[1] % 32 = tsIn[9 - TsLen]
        /\ \A i \in 2 .. TsLen : tsKey[i] = tsIn[8 - TsLen + i]
        /\ TsFits(tsIn, TsLen)
        /\ TsLen > 1 => ~TsFits(tsIn, TsLen - 1)

\* C21, the part the code keeps: the same for every timestamp below 2^53;
\* an 8-byte encoding has the value and the shortest length, but 0 in its
\* top 3 bits.
C21_LengthPrefixUpTo7Bytes ==
    (tsPc # "start" /\ TsValid(tsIn)) =>
        /\ TsLen \in 1 .. 8
        /\ tsKey[1] \div 32 = TsLen % 8
        /\ tsKey[1] % 32 = tsIn[9 - TsLen]
        /\ \A i \in 2 .. TsLen : tsKey[i] = tsIn[8 - TsLen + i]
        /\ TsFits(tsIn, TsLen)
        /\ TsLen > 1 => ~TsFits(tsIn, TsLen - 1)

-----------------------------------------------------------------------------
(* Claims about reads of the versioned store, checked under SpecStore *)

\* the value of a pair after block t, from the record of the applied
\* blocks; the account written before the first block keeps its value
StEffective(pair, t) ==
    IF pair = GenesisPair THEN GenesisValue ELSE EffectiveAt(pair, t)

\* the blocks below timestamp ts, and up to ts, that wrote the pair
StWritesBefore(pair, ts) == {t \in FirstBlock + 1 .. ts - 1 : pair \in WrittenAt(t)}
StWritesUpTo(pair, ts) == {t \in FirstBlock + 1 .. ts : pair \in WrittenAt(t)}

\* C12: GetAsOf(bucket, hBucket, key, timestamp) returns the value
\* effective immediately before timestamp -- the most recent write recorded
\* strictly before it, the live value of a key without history, not found
\* for a key that never existed -- so that DbState reads the state after
\* block blockNr with blockNr + 1, and loadAccount the state after block b
\* with b + 1 and the state before block b with b.
C12_GetAsOfBeforeTimestamp ==
    /\ stOp = "GetAsOf" =>
         /\ stRes.value = StEffective(stPair, stTs - 1)
         /\ stRes.err = IF stPair = GenesisPair \/ StWritesBefore(stPair, stTs) # {}
                        THEN "nil" ELSE "ErrKeyNotFound"
    /\ (stOp \in {"ReadAccountData", "ReadAccountStorage"} /\ ~stFail) =>
         stRes.value = StEffective(stPair, dbsBlockNr)
    /\ stOp = "loadAccount" =>
         /\ stRes.value = StEffective(stPair, stTs - 1)
         /\ stOrig.value = StEffective(stPair, stTs - 2)

\* loadAccount read a key that block b changed from one value to another
C12_Witness ==
    /\ stOp = "loadAccount"
    /\ stRes.value # <<>>
    /\ stOrig.value # <<>>
    /\ stRes.value # stOrig.value
    /\ stRes.value = chain[stTs - 1].writes[stPair]

\* C13 as stated: GetAsOf with a query timestamp before the key's first
\* write returns absent; after a write it returns the latest value written
\* with timestamp <= query, absent when that entry was a delete.
C13_LatestUpToQuery ==
    (stOp = "GetAsOf" /\ stPair # GenesisPair) =>
        IF StWritesUpTo(stPair, stTs) = {} THEN stRes.value = <<>>
        ELSE stRes.value = EffectiveAt(stPair, stTs)

\* C13, amended: GetAsOf with a query timestamp at or before the key's
\* first write returns absent; after a write it returns the latest value
\* written with timestamp < query, absent when that entry was a delete.
C13_LatestBeforeQuery ==
    (stOp = "GetAsOf" /\ stPair # GenesisPair) =>
        IF StWritesBefore(stPair, stTs) = {}
        THEN stRes = [value |-> <<>>, err |-> "ErrKeyNotFound"]
        ELSE stRes = [value |-> EffectiveAt(stPair, stTs - 1), err |-> "nil"]

\* a key was written, then deleted, and read after the delete
C13_Witness ==
    /\ stOp = "GetAsOf"
    /\ \E t1, t2 \in StWritesBefore(stPair, stTs) :
         /\ t1 < t2
         /\ chain[t1].writes[stPair] # <<>>
         /\ chain[t2].writes[stPair] = <<>>
         /\ \A t \in StWritesBefore(stPair, stTs) : t <= t2
    /\ stRes = [value |-> <<>>, err |-> "nil"]

\* a point read of DbState during which GetAsOf failed with a storage error
StReadFailed ==
    /\ stOp \in {"ReadAccountData", "ReadAccountStorage"}
    /\ stFail

\* C23: a storage error returned by GetAsOf during ReadAccountData or
\* ReadAccountStorage is returned to the caller, so that a failed read
\* differs from the read of an account or a slot that does not exist as of
\* blockNr + 1.
C23_ReadErrorReturned ==
    StReadFailed => stRes.err # "nil"

\* C23, what the code does: a failed read returns no value and no error,
\* which is what the read of an absent account or slot returns.
C23_ReadErrorDropped ==
    StReadFailed => stRes = [value |-> <<>>, err |-> "nil"]

-----------------------------------------------------------------------------
(* Claims about GetModifiedAccounts, checked under SpecModified *)

\* the account keys the applied blocks wrote at timestamps in [start, end]
GmWritten ==
    {p[2] : p \in {q \in UNION {WrittenAt(t) : t \in gmStart .. gmEnd} : q[1] = hAT}}

GmReturned == {gmRes.accounts[i] : i \in 1 .. Len(gmRes.accounts)}

\* C14: GetModifiedAccounts(db, start, end) returns the preimages of
\* exactly the account keys recorded in the change index of the accounts
\* history bucket at timestamps start <= t <= end, each address once;
\* entries of other buckets contribute nothing.
C14_ModifiedAccounts ==
    (gmPc = "done" /\ GmWritten \subseteq DOMAIN preimages) =>
        /\ gmRes.err = "nil"
        /\ GmReturned = {preimages[k] : k \in GmWritten}
        /\ Len(gmRes.accounts) = Cardinality(GmWritten)

\* an account changed at two timestamps of the range, in which a storage
\* entry changed too, and was returned once
C14_Witness ==
    /\ gmPc = "done"
    /\ gmRes.err = "nil"
    /\ \E t1, t2 \in gmStart .. gmEnd :
         /\ t1 < t2
         /\ <<hAT, <<17>>>> \in WrittenAt(t1) \cap WrittenAt(t2)
         /\ \E q \in WrittenAt(t1) \cup WrittenAt(t2) : q[1] = hST
    /\ gmRes.accounts = <<PreimageOf(<<17>>)>>

\* C27: if the preimage lookup fails for any of the collected account keys,
\* GetModifiedAccounts returns a nil list and an error, never a partial
\* list nor a list with zero addresses for the unresolved accounts; with no
\* matching entry of the change index it returns an empty list and no error.
C27_PreimageFailure ==
    gmPc = "done" =>
        /\ ~(GmWritten \subseteq DOMAIN preimages) =>
             /\ gmRes.isNil
             /\ gmRes.accounts = <<>>
             /\ gmRes.err = "Could not get preimage"
        /\ GmWritten = {} =>
             /\ ~gmRes.isNil
             /\ gmRes.accounts = <<>>
             /\ gmRes.err = "nil"

\* the lookup failed for a key after that of another key had succeeded
C27_Witness ==
    /\ gmPc = "done"
    /\ gmRes.isNil
    /\ gmRes.err = "Could not get preimage"
    /\ \E k \in GmWritten \cap DOMAIN preimages, m \in GmWritten \ DOMAIN preimages :
         BytesLess(k, m)

-----------------------------------------------------------------------------
(* Claims about rewindData on a failing store, under SpecRewindFaults *)

\* the pairs rewindData resolves: those changed in (rfDst, blockNr]
RfResolved == UNION {WrittenAt(t) : t \in rfDst + 1 .. blockNr}

RfCalled(pair) ==
    \E i \in DOMAIN rfRes.calls :
        /\ CallPair(rfRes.calls[i]) = pair
        /\ rfRes.calls[i].value = <<>>

\* C15: when GetAsOf fails with a storage error while rewindData resolves
\* a key, rewindData returns that error, and does not hand the key to the
\* callback with a nil value.
C15_GetAsOfErrorReturned ==
    (rfPc = "done" /\ rfFault.kind = "GetAsOf" /\ rfFault.pair \in RfResolved) =>
        /\ rfRes.err = "I/O error"
        /\ ~RfCalled(rfFault.pair)

\* C15, what the code does: the error is dropped, the key is handed to the
\* callback with a nil value, and rewindData returns nil.
C15_GetAsOfErrorDropped ==
    (rfPc = "done" /\ rfFault.kind = "GetAsOf" /\ rfFault.pair \in RfResolved) =>
        /\ rfRes.err = "nil"
        /\ RfCalled(rfFault.pair)

\* C26: if the callback returns an error for some key, rewindData returns
\* that error at once and does not invoke the callback for any further key;
\* if the walk of the change index fails, rewindData returns the walk's
\* error without invoking the callback at all.
C26_CallbackAndWalkErrors ==
    rfPc = "done" =>
        /\ rfFault.kind = "df" =>
             /\ rfRes.err = "df error"
             /\ Len(rfRes.calls) = rfFault.at
        /\ rfFault.kind = "walk" =>
             /\ rfRes.err = "walk error"
             /\ rfRes.calls = <<>>

\* the callback failed at its first invocation with more keys to go
C26_Witness ==
    /\ rfPc = "done"
    /\ rfFault.kind = "df"
    /\ rfFault.at = 1
    /\ Cardinality(RfResolved) >= 2
    /\ rfRes.err = "df error"
    /\ Len(rfRes.calls) = 1

-----------------------------------------------------------------------------
(* Claims about the repeated Update, checked under SpecTrie *)

\* C16: for every trie, key k and value v, applying Update(k, v) twice
\* yields the same Hash() as applying it once.
C16_UpdateIdempotent ==
    trPc = "twice" => trTwice = trOnce

\* the value of a key stored in a trie with a Branch was replaced: the
\* first Update changed the hash, the second did not
C16_Witness ==
    /\ trPc = "twice"
    /\ trRoot.t = "branch"
    /\ trOnce # trBase
    /\ trBase # TrieHash(TrieDelete(trRoot, trKey))
    /\ trTwice = trOnce
    /\ TrieGet(trRoot, trKey) = trVal

-----------------------------------------------------------------------------
(* Claims about BlockValidator.ValidateState, under SpecValidator *)

\* C17: ValidateState returns nil only if the root computed by
\* tds.IntermediateRoot equals header.Root and gas used, bloom and receipt
\* root match too; whenever the computed root differs from header.Root it
\* returns an error.
C17_NilOnlyIfRootMatches ==
    vsPc = "done" =>
        /\ vsOut.err = "nil" =>
             /\ vsIn.root = vsIn.headerRoot
             /\ vsIn.blockGasUsed = vsIn.usedGas
             /\ CreateBloom(vsIn.receipts) = vsIn.headerBloom
             /\ DeriveSha(vsIn.receipts) = vsIn.headerReceiptHash
        /\ vsIn.root # vsIn.headerRoot => vsOut.err # "nil"

\* gas used, bloom and receipt root match, IntermediateRoot returns no
\* error and a root that differs from the header's: the block is rejected
C17_Witness ==
    /\ vsPc = "done"
    /\ vsIn.blockGasUsed = vsIn.usedGas
    /\ CreateBloom(vsIn.receipts) = vsIn.headerBloom
    /\ DeriveSha(vsIn.receipts) = vsIn.headerReceiptHash
    /\ vsIn.rootErr = "nil"
    /\ vsIn.root # vsIn.headerRoot
    /\ vsOut.err = "invalid merkle root"

\* ValidateState got as far as calling tds.IntermediateRoot, which failed
VsRootFailed ==
    /\ vsPc = "done"
    /\ vsIn.blockGasUsed = vsIn.usedGas
    /\ CreateBloom(vsIn.receipts) = vsIn.headerBloom
    /\ DeriveSha(vsIn.receipts) = vsIn.headerReceiptHash
    /\ vsIn.rootErr # "nil"

\* C22: if tds.IntermediateRoot returns an error, ValidateState returns an
\* error and never nil, whatever root accompanies the error, a root equal
\* to header.Root included.
C22_RootErrorReturned ==
    VsRootFailed => vsOut.err # "nil"

\* C22, the part the code keeps: the error of tds.IntermediateRoot is
\* returned when the root that accompanies it differs from header.Root;
\* with a root equal to header.Root, ValidateState returns nil.
C22_RootErrorReturnedOnMismatch ==
    VsRootFailed =>
        IF vsIn.root # vsIn.headerRoot
        THEN vsOut.err = vsIn.rootErr
        ELSE vsOut.err = "nil"

-----------------------------------------------------------------------------
(* Claims about SimulatedBackend, checked under SpecSimulated *)

\* C18: after Rollback, whatever transactions SendTransaction accepted
\* since the last Commit, the pending block holds no transaction and is
\* built on the last committed block, and the pending state is the state
\* of the last committed block.
C18_RollbackAborts ==
    smOp.op = "Rollback" =>
        /\ pendingBlock.txs = <<>>
        /\ pendingBlock.parent = BlockHash(blockchain)
        /\ pendingState = blockchain.root
        /\ pendingState = database.state

\* a Rollback that aborted transactions, on top of a committed block that
\* changed the state
C18_Witness ==
    /\ smOp.op = "Rollback"
    /\ smOp.aborted > 0
    /\ blockchain.number > 0
    /\ blockchain.root # GenesisState

\* a step of Commit that inserted a block
SmCommitted == smOp'.op = "Commit" /\ smOp'.err = "nil" /\ smOp' # smOp

SmSent == smOp'.op = "SendTransaction" /\ smOp'.err = "nil" /\ smAccepted' # smAccepted

\* C20: AdjustTime(d) makes the timestamp of the pending block d later than
\* it was before the call and keeps the pending transactions and the
\* pending state; a later SendTransaction does not lose the shift.
C20_AdjustTimeShifts ==
    [][/\ smOp'.op = "AdjustTime" =>
             /\ pendingBlock'.time = pendingBlock.time + Seconds(smOp'.adjustment)
             /\ pendingBlock'.txs = pendingBlock.txs
             /\ pendingState' = pendingState
       /\ SmSent => pendingBlock'.time = pendingBlock.time]_vars

\* what the code does: AdjustTime(d) sets the timestamp of the pending block
\* to that of its parent plus the block interval plus d, whatever it was,
\* and keeps the transactions; SendTransaction sets it back to that of the
\* parent plus the block interval.
C20_TimeFromParent ==
    [][/\ smOp'.op = "AdjustTime" =>
             /\ pendingBlock'.time =
                    prependBlock.time + BlockInterval + Seconds(smOp'.adjustment)
             /\ pendingBlock'.txs = pendingBlock.txs
             /\ pendingState' = pendingState
       /\ SmSent => pendingBlock'.time = prependBlock.time + BlockInterval]_vars

\* the transactions of account among those accepted and not yet committed
RECURSIVE SmCountFrom(_, _)
SmCountFrom(txs, account) ==
    IF txs = <<>> THEN 0
    ELSE (IF Head(txs).from = account THEN 1 ELSE 0) + SmCountFrom(Tail(txs), account)

-----------------------------------------------------------------------------
(* Claims about DbState, checked under SpecDbState *)

\* the merged view of the storage of addr: the value of the hashed key h,
\* the zero hash when the view has no entry for it
FsMerged(addr, h) ==
    LET t == TreeOf(dbsStorage, addr)
        vs == GetAsOf(db, ST, hST, addr \o h, WordInc(WordOf(dbsBlockNr))).value
    IN  IF h \in DOMAIN t THEN t[h].value
        ELSE IF Len(vs) = 0 THEN emptyHash
        ELSE BytesToHash(vs)

\* the first maxResults entries of the merged view with hashed key >= start,
\* in ascending order of the hashed keys
FsExpected(addr, start, maxResults) ==
    LET hs == {SecureKey(k) : k \in FsKeys}
        ks == SortKeys({h \in hs : /\ FsMerged(addr, h) # emptyHash
                                   /\ ~BytesLess(h, start)})
        n == IF Len(ks) < maxResults THEN Len(ks) ELSE maxResults
    IN  [i \in 1 .. n |-> [seckey |-> ks[i], value |-> FsMerged(addr, ks[i])]]

\* the entries cb was called on
FsReported == [i \in 1 .. Len(fsCalls) |->
                  [seckey |-> fsCalls[i].seckey, value |-> fsCalls[i].value]]

\* C24: ForEachStorage(addr, start, cb, maxResults) calls cb, in ascending
\* order of the hashed keys, on exactly the first maxResults entries with
\* hashed key >= start of the merged view of addr's storage, for every
\* start of up to 32 bytes and every maxResults >= 0.
C24_FirstEntriesOfMergedView ==
    fsOp.op = "ForEachStorage" =>
        FsReported = FsExpected(fsOp.addr, fsOp.start, fsOp.maxResults)

\* C24, the part the code keeps: the same for an empty start or a start of
\* the full length of a hash, and maxResults >= 1.
C24_FullLengthStart ==
    (/\ fsOp.op = "ForEachStorage"
     /\ Len(fsOp.start) \in {0, HashLength}
     /\ fsOp.maxResults >= 1) =>
        FsReported = FsExpected(fsOp.addr, fsOp.start, fsOp.maxResults)

\* C25: ForEachStorage invokes the callback at most maxResults times, for
\* every maxResults >= 0.
C25_AtMostMaxResults ==
    fsOp.op = "ForEachStorage" => Len(fsCalls) <= fsOp.maxResults

\* C25, the part the code keeps: at most maxResults calls for maxResults >= 1,
\* and at most one call for maxResults = 0.
C25_AtMostMaxResultsOrOne ==
    fsOp.op = "ForEachStorage" =>
        Len(fsCalls) <= (IF fsOp.maxResults = 0 THEN 1 ELSE fsOp.maxResults)

\* a call of one of the writes of DbState
FsWrote ==
    /\ fsOp'.op \in {"WriteAccountStorage", "UpdateAccountData", "DeleteAccount",
                     "UpdateAccountCode"}
    /\ <<dbsStorage', fsOp'>> # <<dbsStorage, fsOp>>

\* the override of the hashed key h of address a, <<>> when there is none
FsOverride(storage, a, h) ==
    IF h \in DOMAIN TreeOf(storage, a) THEN TreeOf(storage, a)[h].value ELSE <<>>

\* C28: the writes of DbState never reach the store or the point reads:
\* after WriteAccountStorage, UpdateAccountData, DeleteAccount or
\* UpdateAccountCode the store is unchanged and ReadAccountData and
\* ReadAccountStorage return what they returned before; only
\* WriteAccountStorage changes anything, namely the overrides of its
\* address, in which the value written replaces the earlier one of the key.
C28_WritesStayInOverrides ==
    [][FsWrote =>
          /\ db' = db
          /\ dbsBlockNr' = dbsBlockNr
          /\ \A a \in {Contract, <<18>>}, k \in FsKeys :
               /\ ReadAccountStorage(db', dbsBlockNr', a, k, FALSE)
                    = ReadAccountStorage(db, dbsBlockNr, a, k, FALSE)
               /\ ReadAccountData(db', dbsBlockNr', a, FALSE)
                    = ReadAccountData(db, dbsBlockNr, a, FALSE)
          /\ fsOp'.op # "WriteAccountStorage" => dbsStorage' = dbsStorage
          /\ fsOp'.op = "WriteAccountStorage" =>
               \A a \in {Contract, <<18>>}, k \in FsKeys :
                   FsOverride(dbsStorage', a, SecureKey(k)) =
                       IF a = fsOp'.address /\ k = fsOp'.key
                       THEN fsOp'.value
                       ELSE FsOverride(dbsStorage, a, SecureKey(k))]_vars

\* a second write to a key the contract has an override for, with another
\* value, next to an override of another account
C28_Witness ==
    /\ fsOp.op = "WriteAccountStorage"
    /\ fsOp.address = Contract
    /\ fsOp.value = <<0, 6>>
    /\ FsOverride(dbsStorage, Contract, SecureKey(fsOp.key)) = <<0, 6>>
    /\ Cardinality(DOMAIN TreeOf(dbsStorage, Contract)) = 2
    /\ <<18>> \in DOMAIN dbsStorage
    /\ ReadAccountStorage(db, dbsBlockNr, Contract, fsOp.key, FALSE).value = <<5>>

-----------------------------------------------------------------------------
(* Claims about the order of encoded timestamps, checked under SpecOrder *)

\* C11: for all valid timestamps t1 < t2 (t2 < 2^61), whatever the lengths
\* of their encodings, encodeTimestamp(t1) is byte-lexicographically
\* smaller than encodeTimestamp(t2).
C11_OrderPreserving ==
    (odPc = "encoded" /\ TsValid(odA) /\ TsValid(odB) /\ BytesLess(odA, odB))
        => BytesLess(odKeyA, odKeyB)

\* C11, the part the code keeps: the order is preserved among the
\* timestamps below 2^53, whose encodings have 1 to 7 bytes.
C11_OrderPreservingUpTo7Bytes ==
    (odPc = "encoded" /\ TsUpTo7Bytes(odA) /\ TsUpTo7Bytes(odB) /\ BytesLess(odA, odB))
        => BytesLess(odKeyA, odKeyB)

-----------------------------------------------------------------------------
(* Claims about EstimateGas, checked under SpecEstimateGas *)

EgProbeInside == egProbe.lo < egProbe.mid /\ egProbe.mid < egProbe.hi

EgResultRight ==
    /\ ~executable(egCall, egCap) => egRes.err = "errGasEstimationFailed"
    /\ egRes.err = "nil" =>
         /\ TxGas <= egRes.gas
         /\ egRes.gas <= egCap
         /\ executable(egCall, egRes.gas)

\* C30: in every iteration of the search of EstimateGas the probe is
\* strictly between lo and hi, for every value of call.Gas and every
\* threshold; the gas returned is in [TxGas, cap] and the call is executable
\* with it, and errGasEstimationFailed is returned when the call is not
\* executable with cap.
C30_EstimateGasSearch ==
    /\ egProbe # NoProbe => EgProbeInside
    /\ egPc = "done" => EgResultRight

\* the same when twice cap fits the word: lo < hi <= cap in every iteration,
\* so that hi + lo does not wrap
C30_EstimateGasSearchWithoutWrap ==
    (egPc # "idle" /\ 2 * egCap <= GasWord) =>
        /\ egProbe # NoProbe => EgProbeInside
        /\ egPc = "done" => EgResultRight


=============================================================================
